---- MODULE Spec2Model ----
(***************************************************************************)
(* Model of the name-resolution cache of garage61mcp (src/src/cache.py):   *)
(* the CarsTracksCache catalog store (set_cars, set_tracks) and resolver   *)
(* (find_car, find_track, get_car_suggestions, get_track_suggestions).     *)
(*                                                                         *)
(* A Python string is a sequence of one-character strings, so that         *)
(* lower-casing, substring search, splitting, regular-expression search    *)
(* and difflib's similarity ratio are computed character by character.     *)
(***************************************************************************)
EXTENDS Integers, Sequences, FiniteSets, TLC

VARIABLES cars, tracks, _cars_by_name, _tracks_by_name, call, ret, pc, init_failed,
          client, tool

vars == <<cars, tracks, _cars_by_name, _tracks_by_name, call, ret, pc, init_failed,
          client, tool>>

(***************************************************************************)
(* Characters and the str methods the cache uses.                          *)
(***************************************************************************)
LowerLetters == <<"a", "b", "c", "d", "e", "f", "g", "h", "i", "j", "k", "l", "m", "n", "o", "p", "q", "r", "s", "t", "u", "v", "w", "x", "y", "z">>

UpperLetters == <<"A", "B", "C", "D", "E", "F", "G", "H", "I", "J", "K", "L", "M", "N", "O", "P", "Q", "R", "S", "T", "U", "V", "W", "X", "Y", "Z">>

DigitChars == <<"0", "1", "2", "3", "4", "5", "6", "7", "8", "9">>

\* str.lower()
lower(s) ==
    LET
        \* str.lower() on one character
        LowerChar(c) ==
            IF \E i \in 1..26 : UpperLetters[i] = c
            THEN LowerLetters[CHOOSE i \in 1..26 : UpperLetters[i] = c]
            ELSE c
    IN
            [i \in 1..Len(s) |-> LowerChar(s[i])]

\* \s of the re module, and the separator of str.split() and str.strip()
IsSpace(c) == c = " "

\* the slice s[i-1 : i-1+len(lit)] equals lit (i counts from 1)
MatchAt(s, lit, i) ==
    /\ i >= 1
    /\ i + Len(lit) - 1 <= Len(s)
    /\ \A k \in 1..Len(lit) : s[i + k - 1] = lit[k]

\* Python's `a in b` on strings
IsIn(a, b) == \E i \in 1..(Len(b) - Len(a) + 1) : MatchAt(b, a, i)

\* a < b on strings: lexicographic by code point
RECURSIVE StrLess(_, _)
StrLess(a, b) ==
    LET
        \* The characters of the model's strings in code-point order; Python
        \* compares strings by code point.
        CodeOrder == <<" ", "(", ")", "-", ".", "/">> \o DigitChars \o UpperLetters \o <<"_">> \o LowerLetters
        Ord(c) == CHOOSE i \in 1..Len(CodeOrder) : CodeOrder[i] = c
    IN
    IF Len(b) = 0 THEN FALSE
    ELSE IF Len(a) = 0 THEN TRUE
    ELSE IF a[1] = b[1] THEN StrLess(Tail(a), Tail(b))
    ELSE Ord(a[1]) < Ord(b[1])

RECURSIVE lstrip(_)
lstrip(s) == IF Len(s) > 0 /\ IsSpace(s[1]) THEN lstrip(Tail(s)) ELSE s

RECURSIVE rstrip(_)
rstrip(s) ==
    IF Len(s) > 0 /\ IsSpace(s[Len(s)]) THEN rstrip(SubSeq(s, 1, Len(s) - 1))
    ELSE s

\* str.strip()
strip(s) == rstrip(lstrip(s))

\* str.split(): the maximal runs of non-whitespace characters, in order
RECURSIVE SplitFrom(_, _, _)
SplitFrom(s, i, cur) ==
    IF i > Len(s) THEN (IF Len(cur) > 0 THEN <<cur>> ELSE <<>>)
    ELSE IF IsSpace(s[i])
         THEN (IF Len(cur) > 0 THEN <<cur>> ELSE <<>>) \o SplitFrom(s, i + 1, <<>>)
         ELSE SplitFrom(s, i + 1, Append(cur, s[i]))

split(s) == SplitFrom(s, 1, <<>>)

Range(f) == {f[i] : i \in DOMAIN f}

SetMax(S) == CHOOSE m \in S : \A x \in S : x <= m

SetMin(S) == CHOOSE m \in S : \A x \in S : m <= x

(***************************************************************************)
(* re.search.  A regular expression is the set of its alternatives, each a *)
(* sequence of atoms.                                                      *)
(***************************************************************************)
\* a literal string
Lit(s) == [t |-> "lit", s |-> s, cs |-> {}]

\* \b
WordEdge == [t |-> "edge", s |-> <<>>, cs |-> {}]

\* .*  (the strings hold no newline)
AnyRun == [t |-> "any", s |-> <<>>, cs |-> {}]

\* \s*
SpaceRun == [t |-> "spaces", s |-> <<>>, cs |-> {}]

\* a character class [...]
OneOf(cs) == [t |-> "class", s |-> <<>>, cs |-> cs]

\* r'\b(w1|w2|...)\b'
Words(ws) == {<<WordEdge, Lit(w), WordEdge>> : w \in ws}

\* \b at offset p of s: exactly one of s[p-1], s[p] (0-based) is a word character
Boundary(s, p) ==
    LET
        \* \w of the re module
        IsWordChar(c) ==
            \/ \E i \in 1..26 : LowerLetters[i] = c \/ UpperLetters[i] = c
            \/ \E i \in 1..10 : DigitChars[i] = c
            \/ c = "_"
    IN
    (p >= 1 /\ p <= Len(s) /\ IsWordChar(s[p]))
        # (p + 1 <= Len(s) /\ IsWordChar(s[p + 1]))

\* the atoms p[k], p[k+1], ... match s from offset i on
RECURSIVE MatchFrom(_, _, _, _)
MatchFrom(p, k, s, i) ==
    IF k > Len(p) THEN TRUE
    ELSE CASE p[k].t = "lit" ->
                MatchAt(s, p[k].s, i + 1) /\ MatchFrom(p, k + 1, s, i + Len(p[k].s))
           [] p[k].t = "edge" -> Boundary(s, i) /\ MatchFrom(p, k + 1, s, i)
           [] p[k].t = "any" -> \E j \in i..Len(s) : MatchFrom(p, k + 1, s, j)
           [] p[k].t = "spaces" ->
                \E j \in i..Len(s) :
                    (\A m \in (i + 1)..j : IsSpace(s[m])) /\ MatchFrom(p, k + 1, s, j)
           [] p[k].t = "space" ->
                i < Len(s) /\ IsSpace(s[i + 1]) /\ MatchFrom(p, k + 1, s, i + 1)
           [] p[k].t = "class" ->
                i < Len(s) /\ s[i + 1] \in p[k].cs /\ MatchFrom(p, k + 1, s, i + 1)
           [] p[k].t = "notbefore" ->
                ~MatchAt(s, p[k].s, i + 1) /\ MatchFrom(p, k + 1, s, i)

\* re.search(regex, s) finds a match
re_search(regex, s) ==
    \E p \in regex : \E i \in 0..Len(s) : MatchFrom(p, 1, s, i)

\* the index of the first <<regex, score>> of a table whose regex is found in s,
\* 0 if none is
FirstFound(table, s) ==
    IF \E i \in 1..Len(table) : re_search(table[i][1], s)
    THEN SetMin({i \in 1..Len(table) : re_search(table[i][1], s)})
    ELSE 0

(***************************************************************************)
(* Values.  A payload element is a JSON object (a dict with "id", "name"   *)
(* and, for tracks, "variant"), a string or a number.  A missing "variant" *)
(* and an empty one are both the empty string, as track.get("variant", "") *)
(* reads them.                                                             *)
(***************************************************************************)
Dict(id, name, variant) ==
    [kind |-> "dict", id |-> id, name |-> name, variant |-> variant]

Str(s) == [kind |-> "str", id |-> 0, name |-> s, variant |-> <<>>]

Int_(n) == [kind |-> "int", id |-> n, name |-> <<>>, variant |-> <<>>]

\* {"items": items, "total": N}
Envelope(items) == [shape |-> "envelope", items |-> items]

\* a bare list
List(items) == [shape |-> "list", items |-> items]

\* a dict without "items"
OtherDict == [shape |-> "dict", items |-> <<>>]

\* None, a number or a string
Scalar == [shape |-> "scalar", items |-> <<>>]

NoPayload == [shape |-> "none", items |-> <<>>]

\* what a call returned or raised
Returned == [kind |-> "ok", id |-> 0, name |-> <<>>, list |-> <<>>, exc |-> ""]

Raised(e) == [kind |-> "raise", id |-> 0, name |-> <<>>, list |-> <<>>, exc |-> e]

Pair(id, name) == [kind |-> "pair", id |-> id, name |-> name, list |-> <<>>, exc |-> ""]

None == [kind |-> "none", id |-> 0, name |-> <<>>, list |-> <<>>, exc |-> ""]

Names(l) == [kind |-> "list", id |-> 0, name |-> <<>>, list |-> l, exc |-> ""]

\* A Python dict: the sequence of its items [k, v] in insertion order.
DictHas(d, k) == \E i \in 1..Len(d) : d[i].k = k

DictGet(d, k) == d[CHOOSE i \in 1..Len(d) : d[i].k = k].v

\* d[k] = v: a new key goes last, an old key keeps its place
DictSet(d, k, v) ==
    IF DictHas(d, k)
    THEN [i \in 1..Len(d) |-> IF d[i].k = k THEN [k |-> k, v |-> v] ELSE d[i]]
    ELSE Append(d, [k |-> k, v |-> v])

DictKeys(d) == [i \in 1..Len(d) |-> d[i].k]

DictValues(d) == [i \in 1..Len(d) |-> d[i].v]

\* s[:n]
Take(s, n) == SubSeq(s, 1, IF Len(s) < n THEN Len(s) ELSE n)

\* sorted(s, key=..., reverse=True) where keys[i] is the key of s[i]: a stable
\* sort, equal keys keep their order
SortedByKeys(s, keys) ==
    [r \in 1..Len(s) |->
        s[CHOOSE i \in 1..Len(s) :
              Cardinality({j \in 1..Len(s) :
                  keys[j] > keys[i] \/ (keys[j] = keys[i] /\ j < i)}) + 1 = r]]

\* the index that max(s, key=...) picks where keys[i] is the key of s[i]: that
\* of the first maximum
FirstMax(keys) ==
    CHOOSE i \in 1..Len(keys) :
        /\ \A j \in 1..Len(keys) : keys[j] <= keys[i]
        /\ \A j \in 1..(i - 1) : keys[j] < keys[i]

\* The orders in which list(a_set) may list a set of strings: the iteration
\* order of a set of str depends on the hash seed of the process.
Orderings(S) == {f \in [1..Cardinality(S) -> S] : Range(f) = S}

(***************************************************************************)
(* Inputs.                                                                 *)
(***************************************************************************)
\* longest list of car entities in a payload
MaxCars == 2

\* longest list of track entities in a payload
MaxTracks == 2

\* the limit that get_car_suggestions and get_track_suggestions default to
DefaultLimit == 5

SeqsUpTo(S, n) == UNION {[1..k -> S] : k \in 0..n}

CarEntities == {Dict(1, <<"C", "u", "p", " ", "9", "9", "2">>, <<>>), Dict(2, <<"C", "u", "p", " ", "9", "9", "1">>, <<>>),
                Dict(3, <<"G", "T", "3", " ", "R">>, <<>>), Dict(4, <<"c", "u", "p", " ", "9", "9", "2">>, <<>>),
                Dict(5, <<"C", "u", "p">>, <<>>)}

CarNameStrings == {Str(<<"C", "u", "p", " ", "9", "9", "1">>), Str(<<"G", "T", "3", " ", "R">>)}

\* cars that hold the query "cup" as a whole word or inside a longer word
TokenCars == {Dict(6, <<"C", "u", "p", "s", " ", "G", "T", "3">>, <<>>), Dict(7, <<"C", "u", "p", " ", "R">>, <<>>),
              Dict(8, <<"C", "u", "p", " ", "G", "T", "3">>, <<>>)}

\* payloads of no recognized shape
BadCarPayloads ==
    {Scalar, OtherDict, List(<<>>), List(<<Int_(7)>>),
     List(<<Dict(3, <<"G", "T", "3", " ", "R">>, <<>>), Str(<<"C", "u", "p", " ", "9", "9", "1">>)>>),
     Envelope(<<Str(<<"C", "u", "p", " ", "9", "9", "1">>)>>)}

CarPayloads ==
    LET
        \* catalogs of two partial matches of "cup": the higher score without the
        \* whole word, both with the whole word, and equal scores in either order
        TokenCarLists ==
            {<<Dict(6, <<"C", "u", "p", "s", " ", "G", "T", "3">>, <<>>), Dict(7, <<"C", "u", "p", " ", "R">>, <<>>)>>,
             <<Dict(7, <<"C", "u", "p", " ", "R">>, <<>>), Dict(8, <<"C", "u", "p", " ", "G", "T", "3">>, <<>>)>>,
             <<Dict(7, <<"C", "u", "p", " ", "R">>, <<>>), Dict(1, <<"C", "u", "p", " ", "9", "9", "2">>, <<>>)>>,
             <<Dict(1, <<"C", "u", "p", " ", "9", "9", "2">>, <<>>), Dict(7, <<"C", "u", "p", " ", "R">>, <<>>)>>}
        \* payloads of a recognized shape: an envelope or a list of entity objects, or
        \* a list of strings (in a list that starts with a string every element is one)
        GoodCarPayloads ==
            {List(s) : s \in (SeqsUpTo(CarEntities, MaxCars) \ {<<>>}) \cup TokenCarLists}
            \cup {Envelope(s) : s \in SeqsUpTo(CarEntities, MaxCars)}
            \cup {List(s) : s \in SeqsUpTo(CarNameStrings, MaxCars) \ {<<>>}}
    IN
               GoodCarPayloads \cup BadCarPayloads

CarQueries == {<<>>, <<"c", "u", "p">>, <<"C", "U", "P", " ", "9", "9", "1">>, <<"C", "u", "p", " ", "9", "9", "2">>, <<"9", "9", "1">>, <<"c", "o", "p", " ", "9", "9">>,
               <<"z", "z", "z", "z", " ", "c", "9">>, <<"z", "z">>}

Limits == {1, DefaultLimit}

TrackEntities == {Dict(1, <<"R", "A">>, <<>>), Dict(2, <<"R", "A">>, <<"O", "v", "a", "l">>),
                  Dict(3, <<"R", "A", " ", "O", "v", "a", "l">>, <<>>), Dict(4, <<"R", "A", " ", "O", "v", "a", "l">>, <<"C", "l", "u", "b">>),
                  Dict(5, <<"r", "a">>, <<"O", "V", "A", "L">>)}

TrackNameStrings == {Str(<<"R", "A">>)}

\* tracks whose variant scores below that of a track without variant
LowVariantTracks == {Dict(6, <<"R", "A">>, <<"M", "o", "t", "o">>), Dict(7, <<"R", "A">>, <<"A", "l", "t">>)}

BadTrackPayloads ==
    {Scalar, OtherDict, List(<<>>), List(<<Int_(7)>>),
     List(<<Dict(2, <<"R", "A">>, <<"O", "v", "a", "l">>), Str(<<"R", "A">>)>>),
     Envelope(<<Str(<<"R", "A">>)>>)}

TrackPayloads ==
    LET
        \* a catalog longer than MaxTracks: two tracks that share a base name equal to
        \* the variant-qualified name of a third
        LongTrackLists ==
            {<<Dict(3, <<"R", "A", " ", "O", "v", "a", "l">>, <<>>), Dict(4, <<"R", "A", " ", "O", "v", "a", "l">>, <<"C", "l", "u", "b">>), Dict(2, <<"R", "A">>, <<"O", "v", "a", "l">>)>>}
        \* catalogs of one base name: a variant that scores below the track without
        \* variant, before and after it, and two variants of equal score
        LowVariantLists ==
            {<<Dict(1, <<"R", "A">>, <<>>), Dict(6, <<"R", "A">>, <<"M", "o", "t", "o">>)>>,
             <<Dict(6, <<"R", "A">>, <<"M", "o", "t", "o">>), Dict(1, <<"R", "A">>, <<>>)>>,
             <<Dict(6, <<"R", "A">>, <<"M", "o", "t", "o">>), Dict(7, <<"R", "A">>, <<"A", "l", "t">>)>>,
             <<Dict(7, <<"R", "A">>, <<"A", "l", "t">>), Dict(6, <<"R", "A">>, <<"M", "o", "t", "o">>)>>}
        GoodTrackPayloads ==
            {List(s) : s \in (SeqsUpTo(TrackEntities, MaxTracks) \ {<<>>})
                                 \cup LongTrackLists \cup LowVariantLists}
            \cup {Envelope(s) : s \in SeqsUpTo(TrackEntities, MaxTracks)}
            \cup {List(s) : s \in SeqsUpTo(TrackNameStrings, MaxTracks) \ {<<>>}}
    IN
                 GoodTrackPayloads \cup BadTrackPayloads

TrackQueries == {<<>>, <<"R", "A">>, <<"r", "a", " ", "o", "v", "a", "l">>, <<"R", "A", " ", "-", " ", "O", "v", "a", "l">>, <<"o", "v", "a", "l">>, <<"r", "a", " ", "o">>, <<"r", "b">>, <<"z", "z">>}

\* a few payloads of each kind, for the specification of the whole cache
CoreCarPayloads ==
    {List(<<Dict(1, <<"C", "u", "p", " ", "9", "9", "2">>, <<>>), Dict(2, <<"C", "u", "p", " ", "9", "9", "1">>, <<>>)>>),
     Envelope(<<Dict(2, <<"C", "u", "p", " ", "9", "9", "1">>, <<>>)>>),
     List(<<Str(<<"G", "T", "3", " ", "R">>)>>), Envelope(<<>>)} \cup BadCarPayloads

CoreTrackPayloads ==
    {List(<<Dict(1, <<"R", "A">>, <<>>), Dict(2, <<"R", "A">>, <<"O", "v", "a", "l">>)>>),
     Envelope(<<Dict(4, <<"R", "A", " ", "O", "v", "a", "l">>, <<"C", "l", "u", "b">>)>>),
     List(<<Str(<<"R", "A">>)>>), Envelope(<<>>)} \cup BadTrackPayloads

CoreQueries == {<<>>, <<"c", "u", "p">>, <<"R", "A">>, <<"z", "z">>}

\* an int returned
Scored(n) == [kind |-> "int", id |-> n, name |-> <<>>, list |-> <<>>, exc |-> ""]

\* car names for the scoring functions: a make or model, with or without a
\* chassis code, followed or not by a year, a modern indicator or a legacy word
ScoreNames ==
    LET Heads == {<<"P", "o", "r", "s", "c", "h", "e">>, <<"P", "o", "r", "s", "c", "h", "e", " ", "9", "9", "2">>, <<"P", "o", "r", "s", "c", "h", "e", " ", "9", "9", "1">>, <<"P", "o", "r", "s", "c", "h", "e", "9", "9", "1">>,
                  <<"C", "u", "p">>, <<"G", "T", "3", " ", "R">>, <<"O", "l", "d", " ", "G", "T", "3">>, <<"G", "e", "n", " ", "3">>, <<"T", "r", "u", "c", "k">>, <<"E", "v", "o", " ", "I", "I">>,
                  <<"N", "e", "x", "t", " ", "G", "e", "n">>, <<"C", "7", " ", "G", "T", "E">>, <<"G", "T", "P">>, <<"M", "k">>}
        Tails == {<<"2", "0", "0", "9">>, <<"2", "0", "1", "1">>, <<"2", "0", "1", "6">>, <<"2", "0", "1", "7">>, <<"2", "0", "1", "8">>, <<"2", "0", "2", "1">>, <<"2", "0", "2", "4">>,
                  <<"E", "v", "o">>, <<"H", "y", "b", "r", "i", "d">>, <<"(", "9", "9", "2", ")">>, <<"C", "O", "T">>, <<"G", "T", "4", " ", "2", "0", "1", "7", "1">>}
    IN  Heads \cup {h \o <<" ">> \o t : h \in Heads, t \in Tails}

Variants ==
    LET
        \* variant strings: the words the patterns know in several spellings, words
        \* they do not know, and each of them followed by a second word
        VariantWords ==
            {<<"G", "r", "a", "n", "d", " ", "P", "r", "i", "x">>, <<"G", "r", "a", "n", "d", "P", "r", "i", "x">>, <<"G", "R", "A", "N", "D", " ", " ", "P", "R", "I", "X">>, <<"F", "u", "l", "l", " ", "C", "o", "u", "r", "s", "e">>, <<"I", "n", "t", "e", "r", "n", "a", "t", "i", "o", "n", "a", "l">>,
             <<"E", "n", "d", "u", "r", "a", "n", "c", "e">>, <<"O", "v", "a", "l">>, <<"O", "v", "a", "l", "s">>, <<"N", "a", "t", "i", "o", "n", "a", "l">>, <<"C", "l", "u", "b">>, <<"M", "o", "t", "o">>, <<"M", "O", "T", "O">>,
             <<"B", "i", "k", "e">>, <<"R", "a", "l", "l", "y", "c", "r", "o", "s", "s">>, <<"L", "e", "g", "e", "n", "d", "s">>, <<"S", "c", "h", "o", "o", "l">>, <<"R", "e", "v", "e", "r", "s", "e">>, <<"S", "h", "o", "r", "t">>,
             <<"A", "l", "t">>, <<"W", "i", "t", "h", "o", "u", "t">>, <<"w", "/", "o", "u", "t">>, <<"n", "o", "w", "/", "o", "u", "t">>, <<"G", "P">>, <<"B", "o", "o", "t">>}
    IN
    LET
        SecondWords == {<<"O", "v", "a", "l">>, <<"C", "l", "u", "b">>, <<"S", "h", "o", "r", "t">>, <<"M", "o", "t", "o">>, <<"G", "P">>}
    IN
    {<<>>} \cup VariantWords
        \cup {a \o <<" ">> \o b : a \in VariantWords, b \in SecondWords}

(***************************************************************************)
(* Scoring functions.                                                      *)
(***************************************************************************)
\* legacy_patterns of _is_legacy_car, in list order
legacy_patterns ==
    LET
        \* the negative lookahead (?!s)
        NotBefore(s) == [t |-> "notbefore", s |-> s, cs |-> {}]
        \* \s
        OneSpace == [t |-> "space", s |-> <<>>, cs |-> {}]
    IN
                   <<
    Words({<<"9", "9", "1">>}),
    Words({<<"2", "0", "0", "8">>, <<"2", "0", "0", "9">>, <<"2", "0", "1", "0">>, <<"2", "0", "1", "2">>, <<"2", "0", "1", "3">>, <<"2", "0", "1", "4">>, <<"2", "0", "1", "5">>, <<"2", "0", "1", "6">>}),
    {<<WordEdge, Lit(<<"c", "o", "t">>), WordEdge>>, <<WordEdge, Lit(<<"c", "a", "r", " ", "o", "f", " ", "t", "o", "m", "o", "r", "r", "o", "w">>), WordEdge>>},
    Words({<<"l", "e", "g", "a", "c", "y">>, <<"r", "e", "t", "i", "r", "e", "d">>, <<"d", "i", "s", "c", "o", "n", "t", "i", "n", "u", "e", "d">>, <<"o", "l", "d">>}),
    {<<WordEdge, Lit(<<"m", "k">>), AnyRun, Lit(<<"1">>), WordEdge>>},
    {<<WordEdge, Lit(<<"g", "e", "n">>), AnyRun, Lit(<<"1">>), WordEdge>>},
    {<<Lit(<<"c", "6", ".", "r">>)>>},
    {<<Lit(<<"c", "7">>), OneSpace>>},
    {<<Lit(<<"i", "m", "p", "a", "l", "a">>), AnyRun, Lit(<<"c", "o", "t">>)>>},
    {<<Lit(<<"f", "u", "s", "i", "o", "n">>), AnyRun, Lit(<<"2", "0", "1", "6">>)>>},
    {<<Lit(y)>> : y \in {<<"2", "0", "1", "0">>, <<"2", "0", "1", "2">>, <<"2", "0", "1", "3">>, <<"2", "0", "1", "4">>, <<"2", "0", "1", "5">>, <<"2", "0", "1", "6">>}},
    {<<Lit(<<"l", "e", "g", "e", "n", "d", "s">>), AnyRun, Lit(<<"1", "9", "8", "7">>)>>},
    {<<Lit(<<"n", "a", "t", "i", "o", "n", "w", "i", "d", "e">>), AnyRun, Lit(<<"2", "0", "1", "2">>)>>},
    {<<Lit(<<"g", "a", "n", "d", "e", "r">>), AnyRun, Lit(<<"2", "0", "1", "5">>)>>},
    {<<Lit(<<"x", "f", "i", "n", "i", "t", "y">>), AnyRun, Lit(<<"2", "0", "1">>), OneOf({"4", "5", "6"})>>},
    {<<Lit(<<"t", "r", "u", "c", "k">>), AnyRun, Lit(<<"2", "0", "0", "8">>)>>, <<Lit(<<"t", "r", "u", "c", "k">>), AnyRun, Lit(<<"2", "0", "1", "8">>)>>},
    {<<Lit(<<"m", "a", "z", "d", "a">>), AnyRun, Lit(<<"2", "0", "1", "0">>)>>},
    {<<Lit(<<"f", "o", "r", "m", "u", "l", "a">>), SpaceRun, Lit(<<"r", "e", "n", "a", "u", "l", "t">>)>>},
    {<<Lit(<<"i", "r", "-", "0", "5">>)>>, <<Lit(<<"i", "r", "1", "8">>), AnyRun, NotBefore(<<"2">>)>>},
    {<<Lit(<<"f", "a", "l", "c", "o", "n">>), AnyRun, Lit(<<"2", "0", "0", "9">>)>>, <<Lit(<<"f", "a", "l", "c", "o", "n">>), AnyRun, Lit(<<"2", "0", "1", "4">>)>>},
    {<<Lit(<<"c", "o", "m", "m", "o", "d", "o", "r", "e">>), AnyRun, Lit(<<"2", "0", "1", "4">>)>>},
    {<<Lit(<<"f", "8", "2">>), AnyRun, Lit(<<"2", "0", "1", "8">>)>>} >>

\* CarsTracksCache._is_legacy_car
_is_legacy_car(car_name) ==
    \E i \in 1..Len(legacy_patterns) : re_search(legacy_patterns[i], lower(car_name))

\* year_patterns of _get_car_generation_score: <<regex, score>>, in list order
year_patterns == <<
    <<Words({<<"2", "0", "2", "4">>, <<"2", "0", "2", "5">>}), 90>>,
    <<Words({<<"2", "0", "2", "2">>, <<"2", "0", "2", "3">>}), 80>>,
    <<Words({<<"2", "0", "2", "0">>, <<"2", "0", "2", "1">>}), 70>>,
    <<Words({<<"2", "0", "1", "8">>, <<"2", "0", "1", "9">>}), 50>>,
    <<Words({<<"2", "0", "1", "6">>, <<"2", "0", "1", "7">>}), 30>>,
    <<Words({<<"2", "0", "1", "4">>, <<"2", "0", "1", "5">>}), 20>>,
    <<Words({<<"2", "0", "1", "2">>, <<"2", "0", "1", "3">>}), 15>>,
    <<Words({<<"2", "0", "1", "0">>, <<"2", "0", "1", "1">>}), 10>>,
    <<Words({<<"2", "0", "0", "8">>, <<"2", "0", "0", "9">>}), 5>> >>

\* modern_patterns of _get_car_generation_score: <<regex, points>>, in list order
modern_patterns == <<
    <<{<<WordEdge, Lit(<<"e", "v", "o">>), SpaceRun, Lit(y), WordEdge>> :
          y \in {<<"2", "0", "2", "4">>, <<"2", "0", "2", "3">>, <<"2", "0", "2", "2">>, <<"2", "0", "2", "1">>, <<"2", "0", "2", "0">>}}, 85>>,
    <<{<<WordEdge, Lit(<<"e", "v", "o">>), SpaceRun, Lit(<<"i", "i">>), WordEdge>>}, 80>>,
    <<Words({<<"e", "v", "o">>}), 70>>,
    <<{<<WordEdge, Lit(<<"n", "e", "x", "t">>), SpaceRun, Lit(<<"g", "e", "n">>), WordEdge>>}, 90>>,
    <<{<<WordEdge, Lit(<<"g", "e", "n">>), SpaceRun, Lit(<<"3">>), WordEdge>>}, 85>>,
    <<Words({<<"h", "y", "b", "r", "i", "d">>}), 80>>,
    <<Words({<<"g", "t", "p">>}), 85>>,
    <<{<<WordEdge, Lit(<<"g", "t", "3">>), AnyRun, Lit(<<"r">>), WordEdge>>}, 75>>,
    <<Words({<<"g", "t", "3">>}), 65>>,
    <<Words({<<"g", "t", "4">>}), 60>>,
    <<Words({<<"g", "t", "e">>}), 70>>,
    <<Words({<<"t", "c", "r">>}), 65>>,
    <<{<<WordEdge, Lit(<<"c", "u", "p">>), AnyRun, Lit(<<"(", "9", "9">>),
         OneOf({"2", "3", "4", "5", "6", "7", "8", "9"}), Lit(<<")">>)>>}, 80>> >>

\* the score of the legacy classification
LegacyScore == 0

\* base_score of _get_car_generation_score
BaseScore == 40

\* the score when the generation of a Porsche is looked at before the legacy
\* classification
_get_car_generation_score_ChassisFirst(car_name) ==
    LET name_lower == lower(car_name) IN
    IF IsIn(<<"p", "o", "r", "s", "c", "h", "e">>, name_lower) /\ IsIn(<<"9", "9", "2">>, name_lower) THEN 100
    ELSE IF IsIn(<<"p", "o", "r", "s", "c", "h", "e">>, name_lower) /\ IsIn(<<"9", "9", "1">>, name_lower) THEN 10
    ELSE IF _is_legacy_car(car_name) THEN LegacyScore
    ELSE IF FirstFound(year_patterns, name_lower) # 0
         THEN year_patterns[FirstFound(year_patterns, name_lower)][2]
    ELSE SetMax({BaseScore} \cup
                {modern_patterns[i][2] : i \in {k \in 1..Len(modern_patterns) :
                                                  re_search(modern_patterns[k][1], name_lower)}})

\* the score when the year patterns are left out
_get_car_generation_score_NoYears(car_name) ==
    LET name_lower == lower(car_name) IN
    IF _is_legacy_car(car_name) THEN LegacyScore
    ELSE IF IsIn(<<"p", "o", "r", "s", "c", "h", "e">>, name_lower) /\ IsIn(<<"9", "9", "2">>, name_lower) THEN 100
    ELSE IF IsIn(<<"p", "o", "r", "s", "c", "h", "e">>, name_lower) /\ IsIn(<<"9", "9", "1">>, name_lower) THEN 10
    ELSE SetMax({BaseScore} \cup
                {modern_patterns[i][2] : i \in {k \in 1..Len(modern_patterns) :
                                                  re_search(modern_patterns[k][1], name_lower)}})

\* CarsTracksCache._get_car_generation_score
_get_car_generation_score(car_name) ==
    LET name_lower == lower(car_name) IN
    IF _is_legacy_car(car_name) THEN LegacyScore
    ELSE IF IsIn(<<"p", "o", "r", "s", "c", "h", "e">>, name_lower) /\ IsIn(<<"9", "9", "2">>, name_lower) THEN 100
    ELSE IF IsIn(<<"p", "o", "r", "s", "c", "h", "e">>, name_lower) /\ IsIn(<<"9", "9", "1">>, name_lower) THEN 10
    ELSE IF FirstFound(year_patterns, name_lower) # 0
         THEN year_patterns[FirstFound(year_patterns, name_lower)][2]
    ELSE SetMax({BaseScore} \cup
                {modern_patterns[i][2] : i \in {k \in 1..Len(modern_patterns) :
                                                  re_search(modern_patterns[k][1], name_lower)}})

\* preferred_patterns of _get_track_variant_score: <<regex, score>>, in list order
preferred_patterns == <<
    <<{<<WordEdge, Lit(<<"g", "r", "a", "n", "d">>), SpaceRun, Lit(<<"p", "r", "i", "x">>), WordEdge>>}, 100>>,
    <<{<<WordEdge, Lit(<<"f", "u", "l", "l">>), SpaceRun, Lit(<<"c", "o", "u", "r", "s", "e">>), WordEdge>>}, 95>>,
    <<Words({<<"i", "n", "t", "e", "r", "n", "a", "t", "i", "o", "n", "a", "l">>}), 90>>,
    <<Words({<<"e", "n", "d", "u", "r", "a", "n", "c", "e">>}), 85>>,
    <<Words({<<"o", "v", "a", "l">>}), 80>>,
    <<Words({<<"n", "a", "t", "i", "o", "n", "a", "l">>}), 75>>,
    <<Words({<<"c", "l", "u", "b">>}), 70>> >>

\* less_preferred_patterns of _get_track_variant_score, in list order
less_preferred_patterns == <<
    <<Words({<<"m", "o", "t", "o">>}), 40>>,
    <<Words({<<"b", "i", "k", "e">>}), 35>>,
    <<Words({<<"r", "a", "l", "l", "y", "c", "r", "o", "s", "s">>}), 30>>,
    <<Words({<<"l", "e", "g", "e", "n", "d", "s">>}), 25>>,
    <<Words({<<"s", "c", "h", "o", "o", "l">>}), 20>>,
    <<Words({<<"r", "e", "v", "e", "r", "s", "e">>}), 15>>,
    <<Words({<<"s", "h", "o", "r", "t">>}), 45>>,
    <<Words({<<"a", "l", "t">>}), 40>>,
    <<{<<WordEdge, Lit(<<"w", "i", "t", "h", "o", "u", "t">>), WordEdge>>, <<Lit(<<"w", "/", "o", "u", "t">>), WordEdge>>}, 35>> >>

\* the score of a track without variant, and of a variant no pattern knows
MiddleScore == 50

\* the score when the less preferred patterns are tried before the preferred
_get_track_variant_score_LessFirst(variant) ==
    LET variant_lower == lower(variant) IN
    IF variant = <<>> THEN MiddleScore
    ELSE IF FirstFound(less_preferred_patterns, variant_lower) # 0
         THEN less_preferred_patterns[FirstFound(less_preferred_patterns, variant_lower)][2]
    ELSE IF FirstFound(preferred_patterns, variant_lower) # 0
         THEN preferred_patterns[FirstFound(preferred_patterns, variant_lower)][2]
    ELSE MiddleScore

\* CarsTracksCache._get_track_variant_score
_get_track_variant_score(variant) ==
    LET variant_lower == lower(variant) IN
    IF variant = <<>> THEN MiddleScore
    ELSE IF FirstFound(preferred_patterns, variant_lower) # 0
         THEN preferred_patterns[FirstFound(preferred_patterns, variant_lower)][2]
    ELSE IF FirstFound(less_preferred_patterns, variant_lower) # 0
         THEN less_preferred_patterns[FirstFound(less_preferred_patterns, variant_lower)][2]
    ELSE MiddleScore

\* The scoring functions depend on the string alone: their values on the names
\* and variants of the input pools are computed once and read from these tables.
LegacyTable ==
    [n \in {e.name : e \in CarEntities \cup CarNameStrings \cup TokenCars} \cup ScoreNames |->
        _is_legacy_car(n)]

GenerationTable ==
    [n \in {e.name : e \in CarEntities \cup CarNameStrings \cup TokenCars} \cup ScoreNames |->
        _get_car_generation_score(n)]

VariantTable ==
    [v \in {t.variant : t \in TrackEntities} \cup Variants |->
        _get_track_variant_score(v)]

(***************************************************************************)
(* difflib.get_close_matches, as the cache calls it: SequenceMatcher with  *)
(* no junk (autojunk only applies to sequences of 200 or more elements).   *)
(* Indices are 0-based and ranges half-open, as in difflib.                *)
(***************************************************************************)
\* length of the common run of a[i:ahi] and b[j:bhi]
RECURSIVE RunLen(_, _, _, _, _, _)
RunLen(a, i, ahi, b, j, bhi) ==
    IF i < ahi /\ j < bhi /\ a[i + 1] = b[j + 1]
    THEN 1 + RunLen(a, i + 1, ahi, b, j + 1, bhi)
    ELSE 0

\* SequenceMatcher.find_longest_match; <<alo, blo, 0>> when nothing matches
find_longest_match(a, alo, ahi, b, blo, bhi) ==
    LET
        \* of the blocks <<i, j, k>> the one find_longest_match returns: the longest,
        \* of those the one starting earliest in a, of those the one earliest in b
        FirstLongest(blocks) ==
            CHOOSE m \in blocks :
                \A p \in blocks :
                    \/ p[3] < m[3]
                    \/ p[3] = m[3] /\ (m[1] < p[1] \/ (m[1] = p[1] /\ m[2] <= p[2]))
    IN
    FirstLongest({<<alo, blo, 0>>} \cup
                 {<<i, j, RunLen(a, i, ahi, b, j, bhi)>> :
                      i \in alo..(ahi - 1), j \in blo..(bhi - 1)})

\* the sum of the sizes of SequenceMatcher.get_matching_blocks(): the longest
\* block m, then the same to its left and to its right
RECURSIVE MatchingSize(_, _, _, _, _, _)
BlocksAround(a, alo, ahi, b, blo, bhi, m) ==
    IF m[3] = 0 THEN 0
    ELSE m[3]
         + (IF alo < m[1] /\ blo < m[2]
            THEN MatchingSize(a, alo, m[1], b, blo, m[2]) ELSE 0)
         + (IF m[1] + m[3] < ahi /\ m[2] + m[3] < bhi
            THEN MatchingSize(a, m[1] + m[3], ahi, b, m[2] + m[3], bhi) ELSE 0)

MatchingSize(a, alo, ahi, b, blo, bhi) ==
    BlocksAround(a, alo, ahi, b, blo, bhi, find_longest_match(a, alo, ahi, b, blo, bhi))

\* SequenceMatcher.ratio() = 2.0 * matches / length as the fraction <<num, den>>;
\* 1.0 when both strings are empty
ratio(a, b) ==
    IF Len(a) + Len(b) = 0 THEN <<1, 1>>
    ELSE <<2 * MatchingSize(a, 0, Len(a), b, 0, Len(b)), Len(a) + Len(b)>>

\* the index keys set_tracks stores a track under
TrackKeysOf(track) ==
    {lower(track.name),
     strip(lower(track.name) \o <<" ">> \o lower(track.variant)),
     strip(lower(track.name) \o <<" ", "-", " ">> \o lower(track.variant))}

\* ratio() on the index keys and the queries of the input pools, computed once
RatioTable ==
    LET
        \* the strings get_close_matches is asked about for a pool of queries: the
        \* lower-cased queries and their words
        WordsOf(queries) ==
            {lower(q) : q \in queries} \cup (UNION {Range(split(lower(q))) : q \in queries})
    IN
    [p \in ({lower(e.name) : e \in CarEntities \cup CarNameStrings \cup TokenCars}
                \X WordsOf(CarQueries \cup CoreQueries))
           \cup ((UNION {TrackKeysOf(t) : t \in TrackEntities \cup TrackNameStrings \cup LowVariantTracks})
                 \X WordsOf(TrackQueries \cup CoreQueries)) |-> ratio(p[1], p[2])]

\* SequenceMatcher(a = x, b = word).ratio()
Ratio(x, word) ==
    IF <<x, word>> \in DOMAIN RatioTable THEN RatioTable[<<x, word>>] ELSE ratio(x, word)

\* heapq.nlargest(n, result): the x of the n largest (score, x), largest first
RECURSIVE nlargest(_, _)
nlargest(n, result) ==
    LET
        \* p < q as Python compares the tuples (score, x)
        ScoredLess(p, q) ==
            \/ p[1][1] * q[1][2] < q[1][1] * p[1][2]
            \/ p[1][1] * q[1][2] = q[1][1] * p[1][2] /\ StrLess(p[2], q[2])
    IN
    IF n = 0 \/ result = {} THEN <<>>
    ELSE LET top == CHOOSE p \in result : \A q \in result \ {p} : ScoredLess(q, p)
         IN  <<top[2]>> \o nlargest(n - 1, result \ {top})

\* get_close_matches(word, possibilities, n, cutoff) with cutoff = cutNum / cutDen;
\* possibilities is a list of distinct strings (the keys of a dict)
get_close_matches(word, possibilities, n, cutNum, cutDen) ==
    nlargest(n, {p \in {<<Ratio(x, word), x>> : x \in Range(possibilities)} :
                    p[1][1] * cutDen >= cutNum * p[1][2]})

(***************************************************************************)
(* Catalog store.                                                          *)
(***************************************************************************)
\* the list set_cars / set_tracks stores for a payload
StoredList(data) ==
    IF data.shape = "envelope" THEN data.items
    ELSE IF data.shape = "list" /\ Len(data.items) > 0
         THEN IF data.items[1].kind = "str"
              THEN [i \in 1..Len(data.items) |->
                        Dict(i - 1, data.items[i].name, <<>>)]
              ELSE IF data.items[1].kind = "dict" THEN data.items
              ELSE <<>>
    ELSE <<>>

\* car.get / track.get raises AttributeError on an element that is no dict
AllDicts(l) == \A i \in 1..Len(l) : l[i].kind = "dict"

\* {car.get("name", "").lower(): car for car in self.cars}
RECURSIVE CarIndexFrom(_, _, _)
CarIndexFrom(d, l, i) ==
    IF i > Len(l) THEN d ELSE CarIndexFrom(DictSet(d, lower(l[i].name), l[i]), l, i + 1)

CarIndex(l) == CarIndexFrom(<<>>, l, 1)

\* the base-name step when the base name is stored whether present or not
StoreBaseName_Overwrite(d, base_name, track) ==
    IF base_name # <<>> THEN DictSet(d, base_name, track) ELSE d

\* the base-name step of the loop of set_tracks
StoreBaseName(d, base_name, track) ==
    IF base_name # <<>> /\ ~DictHas(d, base_name) THEN DictSet(d, base_name, track)
    ELSE d

\* the full-name step when a full name is stored only if it is no key yet
StoreFullNames_KeepExisting(d, base_name, variant, track) ==
    LET full_name == strip(base_name \o <<" ">> \o lower(variant))
        full_name_dash == strip(base_name \o <<" ", "-", " ">> \o lower(variant))
        d1 == IF DictHas(d, full_name) THEN d ELSE DictSet(d, full_name, track)
    IN  IF variant = <<>> THEN d
        ELSE IF DictHas(d1, full_name_dash) THEN d1
        ELSE DictSet(d1, full_name_dash, track)

\* the full-name step of the loop of set_tracks
StoreFullNames(d, base_name, variant, track) ==
    IF variant # <<>>
    THEN DictSet(DictSet(d, strip(base_name \o <<" ">> \o lower(variant)), track),
                 strip(base_name \o <<" ", "-", " ">> \o lower(variant)), track)
    ELSE d

\* the index the loop of set_tracks has built when it ends or raises: that of
\* the tracks before the first element that is no dict
RECURSIVE TrackIndexFrom(_, _, _)
TrackIndexFrom(d, l, i) ==
    LET
        \* one pass of the loop of set_tracks over a track
        IndexTrack(track) ==
            StoreFullNames(StoreBaseName(d, lower(track.name), track),
                           lower(track.name), track.variant, track)
    IN
    IF i > Len(l) \/ l[i].kind # "dict" THEN d
    ELSE TrackIndexFrom(IndexTrack(l[i]), l, i + 1)

TrackIndex(l) == TrackIndexFrom(<<>>, l, 1)

\* the call last made: its operation and arguments
Call(op, q, flag, limit, payload) ==
    [op |-> op, q |-> q, flag |-> flag, limit |-> limit, payload |-> payload]

\* CarsTracksCache.set_cars: the list is stored first; the comprehension that
\* builds the index raises on an element that is no dict and then assigns nothing
set_cars(cars_data) ==
    /\ cars' = StoredList(cars_data)
    /\ IF AllDicts(StoredList(cars_data))
       THEN /\ _cars_by_name' = CarIndex(StoredList(cars_data))
            /\ ret' = Returned
       ELSE /\ UNCHANGED _cars_by_name
            /\ ret' = Raised("AttributeError")
    /\ call' = Call("set_cars", <<>>, FALSE, 0, cars_data)
    /\ UNCHANGED <<tracks, _tracks_by_name>>

\* CarsTracksCache.set_tracks: the list is stored, the index emptied and then
\* filled track by track; the loop raises on an element that is no dict
set_tracks(tracks_data) ==
    /\ tracks' = StoredList(tracks_data)
    /\ _tracks_by_name' = TrackIndex(StoredList(tracks_data))
    /\ ret' = IF AllDicts(StoredList(tracks_data)) THEN Returned
              ELSE Raised("AttributeError")
    /\ call' = Call("set_tracks", <<>>, FALSE, 0, tracks_data)
    /\ UNCHANGED <<cars, _cars_by_name>>

(***************************************************************************)
(* Resolver: cars.                                                         *)
(***************************************************************************)

\* any(keyword in car_name_lower for keyword in legacy_keywords)
HasLegacyKeyword(car_name_lower) ==
    LET
        legacy_keywords == {<<"l", "e", "g", "a", "c", "y">>, <<"o", "l", "d">>, <<"c", "l", "a", "s", "s", "i", "c">>, <<"v", "i", "n", "t", "a", "g", "e">>, <<"9", "9", "1">>, <<"g", "e", "n", " ", "1">>,
                            <<"g", "e", "n", "e", "r", "a", "t", "i", "o", "n", " ", "1">>}
    IN
    \E keyword \in legacy_keywords : IsIn(keyword, car_name_lower)

\* include_legacy when the legacy keywords are not looked for
EffectiveIncludeLegacy_FlagOnly(car_name, include_legacy) == include_legacy

\* the include_legacy that find_car and get_car_suggestions go on with
EffectiveIncludeLegacy(car_name, include_legacy) ==
    include_legacy \/ HasLegacyKeyword(lower(car_name))

\* _is_legacy_car and _get_car_generation_score, read from the tables
IsLegacyCar(car_name) ==
    IF car_name \in DOMAIN LegacyTable THEN LegacyTable[car_name]
    ELSE _is_legacy_car(car_name)

GenerationScore(car_name) ==
    IF car_name \in DOMAIN GenerationTable THEN GenerationTable[car_name]
    ELSE _get_car_generation_score(car_name)

\* the list when it is left in the order it came in
SortByGeneration_Unsorted(cs) == cs

\* sorted(cs, key=lambda car: self._get_car_generation_score(car["name"]),
\* reverse=True)
SortByGeneration(cs) ==
    SortedByKeys(cs, [i \in 1..Len(cs) |-> GenerationScore(cs[i].name)])

\* _sort_cars_by_relevance when the legacy cars are never filtered out
_sort_cars_keep_legacy(cs, include_legacy) == SortByGeneration(cs)

\* CarsTracksCache._sort_cars_by_relevance
_sort_cars_by_relevance(cs, include_legacy) ==
    SortByGeneration(IF include_legacy THEN cs
                     ELSE SelectSeq(cs, LAMBDA car : ~IsLegacyCar(car.name)))

\* (car["id"], car["name"])
CarPair(car) == Pair(car.id, car.name)

\* the partial_matches of find_car, in index order
PartialCarMatches(car_name_lower, input_words) ==
    DictValues(SelectSeq(_cars_by_name, LAMBDA item :
        \/ IsIn(car_name_lower, item.k)
        \/ IsIn(item.k, car_name_lower)
        \/ \A w \in 1..Len(input_words) : IsIn(input_words[w], item.k)))

\* all(word in match_words for word in input_words)
AllWordsAmong(input_words, match_words) ==
    \A i \in 1..Len(input_words) : input_words[i] \in Range(match_words)

\* the return when the loop over sorted_matches is left out
FirstWholeWordMatch_TopOnly(input_words, sorted_matches) ==
    IF Len(sorted_matches) = 0 THEN Raised("IndexError")
    ELSE CarPair(sorted_matches[1])

\* the loop over sorted_matches and the return after it; sorted_matches[0] of
\* an empty list raises IndexError
FirstWholeWordMatch(input_words, sorted_matches) ==
    IF \E k \in 1..Len(sorted_matches) :
           AllWordsAmong(input_words, split(lower(sorted_matches[k].name)))
    THEN CarPair(sorted_matches[SetMin({k \in 1..Len(sorted_matches) :
             AllWordsAmong(input_words, split(lower(sorted_matches[k].name)))})])
    ELSE IF Len(sorted_matches) = 0 THEN Raised("IndexError")
    ELSE CarPair(sorted_matches[1])

\* the return of find_car from a non-empty partial_matches
PartialCarResult(input_words, sorted_matches) ==
    IF Len(sorted_matches) = 1 THEN CarPair(sorted_matches[1])
    ELSE FirstWholeWordMatch(input_words, sorted_matches)

\* word_matches of find_car: the per-word fuzzy matches, concatenated
RECURSIVE WordMatches(_, _, _)
WordMatches(input_words, car_names, i) ==
    IF i > Len(input_words) THEN <<>>
    ELSE get_close_matches(input_words[i], car_names, 5, 3, 10)
         \o WordMatches(input_words, car_names, i + 1)

\* find_car after the exact step missed, when partial_matches is not tested
\* for being empty
InexactCar_NoGuard(car_name_lower, include_legacy, input_words, partial_matches) ==
    {PartialCarResult(input_words,
                      _sort_cars_by_relevance(partial_matches, include_legacy))}

\* find_car after the exact step missed
InexactCar(car_name_lower, include_legacy, input_words, partial_matches) ==
    LET
        \* the lists that matches may be after line 328: list(set(...)) lists the set
        \* in an order that depends on the hash seed
        FuzzyCarMatches(matches, car_names) ==
            IF matches = <<>> /\ Len(input_words) > 1
            THEN Orderings(Range(WordMatches(input_words, car_names, 1)))
            ELSE {matches}
        \* the return of find_car from its fuzzy step
        FuzzyCarResult(sorted_matches) ==
            IF sorted_matches # <<>> THEN CarPair(sorted_matches[1]) ELSE None
    IN
    IF partial_matches # <<>>
    THEN {PartialCarResult(input_words,
                           _sort_cars_by_relevance(partial_matches, include_legacy))}
    ELSE {FuzzyCarResult(_sort_cars_by_relevance(
              [i \in 1..Len(matches) |-> DictGet(_cars_by_name, matches[i])],
              include_legacy)) :
          matches \in FuzzyCarMatches(get_close_matches(car_name_lower, DictKeys(_cars_by_name), 10, 3, 10), DictKeys(_cars_by_name))}

\* find_car when the exact step is left out
FindCarLower_NoExactStep(car_name_lower, include_legacy) ==
    InexactCar(car_name_lower, include_legacy, split(car_name_lower),
               PartialCarMatches(car_name_lower, split(car_name_lower)))

\* CarsTracksCache.find_car: the set of its possible outcomes
FindCarLower(car_name_lower, include_legacy) ==
    IF DictHas(_cars_by_name, car_name_lower)
    THEN {CarPair(DictGet(_cars_by_name, car_name_lower))}
    ELSE InexactCar(car_name_lower, include_legacy, split(car_name_lower),
                    PartialCarMatches(car_name_lower, split(car_name_lower)))

find_car(car_name, include_legacy) ==
    FindCarLower(lower(car_name), EffectiveIncludeLegacy(car_name, include_legacy))

\* suggestion_cars after the loop over fuzzy_matches
RECURSIVE AddFuzzyCars(_, _, _)
AddFuzzyCars(suggestion_cars, fuzzy_matches, i) ==
    IF i > Len(fuzzy_matches) THEN suggestion_cars
    ELSE AddFuzzyCars(
             IF DictGet(_cars_by_name, fuzzy_matches[i]) \in Range(suggestion_cars)
             THEN suggestion_cars
             ELSE Append(suggestion_cars, DictGet(_cars_by_name, fuzzy_matches[i])),
             fuzzy_matches, i + 1)

\* CarsTracksCache.get_car_suggestions
get_car_suggestions(car_name, limit, include_legacy) ==
    LET
        car_name_lower == lower(car_name)
        \* [car["name"] for car in cs]
        NamesOf(cs) == [i \in 1..Len(cs) |-> cs[i].name]
        \* suggestion_cars after the loop over the index
        SuggestionPartials(words) ==
            DictValues(SelectSeq(_cars_by_name, LAMBDA item :
                \/ IsIn(car_name_lower, item.k)
                \/ \E w \in 1..Len(words) : IsIn(words[w], item.k)))
    IN
    Names(NamesOf(Take(_sort_cars_by_relevance(
             AddFuzzyCars(SuggestionPartials(split(car_name_lower)),
                          get_close_matches(car_name_lower, DictKeys(_cars_by_name),
                                            limit * 2, 4, 10), 1),
             EffectiveIncludeLegacy(car_name, include_legacy)), limit)))

(***************************************************************************)
(* Resolver: tracks.                                                       *)
(***************************************************************************)
\* _get_track_variant_score, read from the table
VariantScore(variant) ==
    IF variant \in DOMAIN VariantTable THEN VariantTable[variant]
    ELSE _get_track_variant_score(variant)

\* CarsTracksCache._format_track_name_with_variant
_format_track_name_with_variant(track) ==
    IF track.variant # <<>> THEN track.name \o <<" ", "-", " ">> \o track.variant
    ELSE track.name

\* (track["id"], self._format_track_name_with_variant(track))
TrackPair(track) == Pair(track.id, _format_track_name_with_variant(track))

\* CarsTracksCache._group_tracks_by_base_name: a dict from base name to the
\* list of its tracks, the base names in the order of their first track
RECURSIVE GroupFrom(_, _, _)
GroupFrom(grouped, ts, i) ==
    IF i > Len(ts) THEN grouped
    ELSE GroupFrom(DictSet(grouped, ts[i].name,
                           IF DictHas(grouped, ts[i].name)
                           THEN Append(DictGet(grouped, ts[i].name), ts[i])
                           ELSE <<ts[i]>>),
                   ts, i + 1)

\* the groups when all the tracks are put under the base name of the first
_group_tracks_by_base_name_OneGroup(ts) ==
    IF ts = <<>> THEN <<>> ELSE <<[k |-> ts[1].name, v |-> ts]>>

_group_tracks_by_base_name(ts) == GroupFrom(<<>>, ts, 1)

\* the first of the list, when the variants are not sorted by their score
_get_best_track_variant_First(track_variants, prefer_racing) == track_variants[1]

\* the best variant when the scores are looked at only with prefer_racing set
_get_best_track_variant_RacingOnly(track_variants, prefer_racing) ==
    IF Len(track_variants) = 1 \/ ~prefer_racing THEN track_variants[1]
    ELSE SortedByKeys(track_variants,
                      [i \in 1..Len(track_variants) |->
                          VariantScore(track_variants[i].variant)])[1]

\* CarsTracksCache._get_best_track_variant on a non-empty list; prefer_racing
\* is not read
_get_best_track_variant(track_variants, prefer_racing) ==
    IF Len(track_variants) = 1 THEN track_variants[1]
    ELSE SortedByKeys(track_variants,
                      [i \in 1..Len(track_variants) |->
                          VariantScore(track_variants[i].variant)])[1]

find_track(track_name, prefer_racing) ==
    LET
        \* the return of find_track from its fuzzy step; base_names is the order in
        \* which list(set(...)) lists BaseNameSet.  Only matches[0] is read, so that the
        \* names which lower-case alike are given to get_close_matches once.
        FuzzyTrackResult(matches, base_names) ==
            LET
                \* the first name of base_names whose lower-cased form is the best match
                MatchedBase(best) ==
                    base_names[SetMin({i \in 1..Len(base_names) : lower(base_names[i]) = best})]
                \* the return of find_track once matched_base is found
                VariantsOfBase(matched_base) ==
                    IF matched_base # <<>>
                    THEN TrackPair(_get_best_track_variant(
                             SelectSeq(tracks, LAMBDA t : t.name = matched_base), prefer_racing))
                    ELSE None
            IN
            IF matches # <<>>
            THEN VariantsOfBase(MatchedBase(matches[1]))
            ELSE None
    IN
    LET
        \* the distinct base names of the stored tracks: set(track.get("name", "") ...)
        BaseNameSet == {tracks[i].name : i \in 1..Len(tracks)}
    IN
    LET
        \* match_score of find_track
        MatchScore(track_name_lower, base_name) ==
            IF track_name_lower = base_name THEN 100
            ELSE IF IsIn(track_name_lower, base_name) THEN 80
            ELSE IF IsIn(base_name, track_name_lower) THEN 60
            ELSE 20
        \* max(all_best_variants, key=match_score)
        MaxByMatchScore(track_name_lower, all_best_variants) ==
            all_best_variants[FirstMax([i \in 1..Len(all_best_variants) |->
                MatchScore(track_name_lower, lower(all_best_variants[i].name))])]
        \* the track find_track returns from a non-empty matching_tracks, grouped
        BestOverall(track_name_lower, grouped) ==
            IF Len(grouped) = 1 THEN _get_best_track_variant(grouped[1].v, prefer_racing)
            ELSE MaxByMatchScore(track_name_lower,
                                 [i \in 1..Len(grouped) |->
                                     _get_best_track_variant(grouped[i].v, prefer_racing)])
        \* the condition under which find_track appends a track to matching_tracks
        TrackOverlaps(track_name_lower, words, base_name, variant) ==
            \/ IsIn(track_name_lower, base_name)
            \/ IsIn(base_name, track_name_lower)
            \/ IsIn(track_name_lower, lower(strip(base_name \o <<" ">> \o variant)))
            \/ \E w \in 1..Len(words) : IsIn(words[w], base_name)
        \* the matching_tracks of find_track
        MatchingTracks(track_name_lower) ==
            SelectSeq(tracks, LAMBDA track :
                TrackOverlaps(track_name_lower, split(track_name_lower),
                              lower(track.name), lower(track.variant)))
        \* find_track after the exact step missed; track.get raises AttributeError on
        \* an element of self.tracks that is no dict
        InexactTrack(track_name_lower, matching_tracks) ==
            IF matching_tracks # <<>>
            THEN {TrackPair(BestOverall(track_name_lower,
                                        _group_tracks_by_base_name(matching_tracks)))}
            ELSE {FuzzyTrackResult(get_close_matches(track_name_lower,
                                        [i \in 1..Len(base_names) |-> lower(base_names[i])],
                                        3, 4, 10),
                      base_names) :
                  base_names \in Orderings(BaseNameSet)}
        \* CarsTracksCache.find_track: the set of its possible outcomes
        FindTrackLower(track_name_lower) ==
            IF DictHas(_tracks_by_name, track_name_lower)
            THEN {TrackPair(DictGet(_tracks_by_name, track_name_lower))}
            ELSE IF ~AllDicts(tracks) THEN {Raised("AttributeError")}
            ELSE InexactTrack(track_name_lower, MatchingTracks(track_name_lower))
    IN
    FindTrackLower(lower(track_name))

\* suggestions when a formatted name is appended without the test for a name
\* already listed
AddNames_Repeats(suggestions, found, i) ==
    suggestions \o [k \in 1..(Len(found) - i + 1) |->
                       _format_track_name_with_variant(found[k + i - 1])]

\* suggestions after a loop over tracks found: the formatted names, each once
RECURSIVE AddNames(_, _, _)
AddNames(suggestions, found, i) ==
    IF i > Len(found) THEN suggestions
    ELSE AddNames(IF _format_track_name_with_variant(found[i]) \in Range(suggestions)
                  THEN suggestions
                  ELSE Append(suggestions, _format_track_name_with_variant(found[i])),
                  found, i + 1)

\* CarsTracksCache.get_track_suggestions
get_track_suggestions(track_name, limit) ==
    LET
        \* the tracks of the fuzzy matches of get_track_suggestions
        TrackFuzzies(fuzzy_matches) ==
            [i \in 1..Len(fuzzy_matches) |-> DictGet(_tracks_by_name, fuzzy_matches[i])]
        \* the tracks of the partial matches of get_track_suggestions, in index order
        TrackPartials(track_name_lower, words) ==
            DictValues(SelectSeq(_tracks_by_name, LAMBDA item :
                \/ IsIn(track_name_lower, item.k)
                \/ \E w \in 1..Len(words) : IsIn(words[w], item.k)))
        TrackSuggestionsLower(track_name_lower) ==
            Take(AddNames(<<>>,
                          TrackPartials(track_name_lower, split(track_name_lower))
                          \o TrackFuzzies(get_close_matches(track_name_lower,
                                              DictKeys(_tracks_by_name), limit, 4, 10)),
                          1),
                 limit)
    IN
    Names(TrackSuggestionsLower(lower(track_name)))

(***************************************************************************)
(* The fastest-lap workflow: the tools get_my_fastest_lap and              *)
(* get_team_fastest_lap, and the client methods get_user_fastest_lap and   *)
(* get_overall_fastest_lap they await.                                     *)
(***************************************************************************)
\* a result dict of the client: has it "lap", has it "telemetry_csv", the value
\* of "pro_required"
Result(lap, telemetry_csv, pro_required) ==
    [lap |-> lap, telemetry_csv |-> telemetry_csv, pro_required |-> pro_required]

\* the text of a tool: how it starts and which telemetry paragraph and note follow
Text(head, telemetry, note) == [head |-> head, telemetry |-> telemetry, note |-> note]

\* no fastest-lap method of the client has been called
IdleClient ==
    [method |-> "", at |-> "idle", car |-> None, track |-> None,
     try_telemetry |-> TRUE, sent |-> <<>>, canViewTelemetry |-> FALSE, csv |-> "",
     result |-> Result(FALSE, FALSE, FALSE), exc |-> "", message |-> ""]

\* no tool has been called
IdleTool ==
    [name |-> "", at |-> "idle", car |-> <<>>, track |-> <<>>,
     team_result |-> Result(FALSE, FALSE, FALSE), text |-> Text("", "", FALSE)]

\* get_user_fastest_lap / get_overall_fastest_lap from their first line to the
\* first request: find_car_id, find_track_id and the two `if not ..._id` tests.
\* The outcomes are the states of the call when it first awaits or has raised.
Begin(method, car_name, track_name) ==
    LET
        call0 == [IdleClient EXCEPT !.method = method]
        Fails(c, exc, message) == [c EXCEPT !.at = "raised", !.exc = exc, !.message = message]
        \* `if not car_id`: find_car_id returned None or an id that is falsy
        NotId(found) == found.kind = "none" \/ found.id = 0
        AfterTrack(c, found) ==
            IF found.kind = "raise" THEN Fails(c, found.exc, "")
            ELSE IF NotId(found)
                 THEN LET suggestions == get_track_suggestions(track_name, DefaultLimit)
                      IN  IF suggestions.kind = "raise"
                          THEN Fails([c EXCEPT !.track = found], suggestions.exc, "")
                          ELSE Fails([c EXCEPT !.track = found], "ValueError", "Track not found")
            ELSE [c EXCEPT !.track = found, !.at = "laps"]
    IN
    UNION {IF car.kind = "raise" THEN {Fails(call0, car.exc, "")}
           ELSE IF NotId(car)
                THEN LET suggestions == get_car_suggestions(car_name, DefaultLimit, FALSE)
                     IN  IF suggestions.kind = "raise"
                         THEN {Fails([call0 EXCEPT !.car = car], suggestions.exc, "")}
                         ELSE {Fails([call0 EXCEPT !.car = car], "ValueError", "Car not found")}
           ELSE {AfterTrack([call0 EXCEPT !.car = car], track) :
                     track \in find_track(track_name, TRUE)} :
           car \in find_car(car_name, FALSE)}

\* the three telemetry paragraphs of the tools
TelemetryParagraph(result) ==
    IF result.telemetry_csv THEN "available"
    ELSE IF result.pro_required THEN "pro"
    ELSE "none"

\* get_my_fastest_lap once get_user_fastest_lap has returned or raised
get_my_fastest_lap(c) ==
    IF c.at = "raised" THEN Text("Error: ", "", FALSE)
    ELSE IF ~c.result.lap THEN Text("Missing lap data", "", FALSE)
    ELSE Text("**Your Fastest Lap: ", TelemetryParagraph(c.result), FALSE)

\* `except ValueError: pass` around the personal lookup of get_team_fastest_lap
\* left out: the ValueError reaches `except Exception`
get_team_fastest_lap_UserErrorFatal(team_result, c) ==
    IF c.at = "raised" THEN Text("Error: ", "", FALSE)
    ELSE IF ~team_result.lap THEN Text("Missing lap data", "", FALSE)
    ELSE Text("**Team Fastest Lap: ", TelemetryParagraph(team_result), FALSE)

\* get_team_fastest_lap once get_overall_fastest_lap has returned team_result
\* and get_user_fastest_lap has returned or raised
get_team_fastest_lap(team_result, c) ==
    IF c.at = "raised" /\ c.exc # "ValueError" THEN Text("Error: ", "", FALSE)
    ELSE IF ~team_result.lap THEN Text("Missing lap data", "", FALSE)
    ELSE Text("**Team Fastest Lap: ", TelemetryParagraph(team_result), c.at = "raised")

\* call_tool: a tool is called; create_client raises without a token, else the
\* first client method runs up to its first request
CallTool ==
    LET
        \* the car and track arguments of the tool calls
        LapQueries == {<<<<"c", "u", "p">>, <<"R", "A">>>>, <<<<"G", "T", "3", " ", "R">>, <<"R", "A">>>>, <<<<"c", "u", "p">>, <<"z", "z">>>>}
    IN
    /\ pc = "serving"
    /\ tool.at \in {"idle", "done"}
    /\ \E name \in {"get_my_fastest_lap", "get_team_fastest_lap"}, q \in LapQueries :
           LET started == [IdleTool EXCEPT !.name = name, !.car = q[1], !.track = q[2]]
           IN  IF init_failed = "create_client"
               THEN /\ tool' = [started EXCEPT !.at = "done", !.text = Text("Error: ", "", FALSE)]
                    /\ client' = IdleClient
               ELSE /\ tool' = [started EXCEPT !.at = IF name = "get_my_fastest_lap"
                                                      THEN "user" ELSE "team"]
                    /\ client' \in Begin(IF name = "get_my_fastest_lap"
                                         THEN "get_user_fastest_lap"
                                         ELSE "get_overall_fastest_lap", q[1], q[2])
    /\ UNCHANGED <<cars, tracks, _cars_by_name, _tracks_by_name, call, ret, pc, init_failed>>

\* the API answers the lap-list request of the running client method: one
\* iteration of `for try_telemetry in [True, False]` up to the answer and what
\* the code does with it
LapsAnswered ==
    LET
        \* the answers to GET /laps: a lap list whose first lap has
        \* canViewTelemetry false or true, an empty list, an HTTP error status,
        \* httpx.RequestError
        LapAnswers == {"laps", "laps_viewable", "empty", "403", "404", "401", "500", "network"}
        AfterLaps(c, answer) ==
            LET asked == [c EXCEPT !.sent = Append(@, [seeTelemetry |-> c.try_telemetry,
                                                       cars |-> c.car.id,
                                                       tracks |-> c.track.id,
                                                       answer |-> answer])]
            IN
            IF answer = "laps"
            THEN [asked EXCEPT !.at = "returned", !.result = Result(TRUE, FALSE, FALSE)]
            ELSE IF answer = "laps_viewable"
            THEN [asked EXCEPT !.at = "csv", !.canViewTelemetry = TRUE]
            ELSE IF answer = "403" /\ c.try_telemetry
            THEN [asked EXCEPT !.try_telemetry = FALSE]
            ELSE [asked EXCEPT !.at = "raised", !.exc = "ValueError",
                               !.message = IF answer = "empty" THEN "No lap data found"
                                           ELSE IF answer = "404" THEN "No laps found"
                                           ELSE IF answer = "401"
                                                THEN "Invalid authentication token"
                                           ELSE IF answer = "network" THEN "Network error"
                                           ELSE "API error"]
    IN
    /\ client.at = "laps"
    /\ \E answer \in LapAnswers : client' = AfterLaps(client, answer)
    /\ UNCHANGED <<cars, tracks, _cars_by_name, _tracks_by_name, call, ret, pc, init_failed, tool>>

\* the API answers the telemetry request of the running client method, and the
\* iteration ends
CsvAnswered ==
    LET
        \* the answers to GET /laps/{id}/csv: a CSV body, an empty body, an HTTP
        \* error status, httpx.RequestError
        CsvAnswers == {"text", "empty", "403", "404", "401", "500", "network"}
        \* get_lap_telemetry_csv: the body, None ("none") or ValueError ("raise")
        get_lap_telemetry_csv(answer) ==
            IF answer \in {"text", "empty"} THEN answer
            ELSE IF answer \in {"403", "404"} THEN "none"
            ELSE "raise"
        AfterCsv(c, answer) ==
            LET csv_data == get_lap_telemetry_csv(answer)
                \* `if csv_data`: a str that is not empty
                truthy == csv_data = "text"
            IN
            IF csv_data = "raise"
            THEN [c EXCEPT !.csv = answer, !.at = "raised", !.exc = "ValueError",
                           !.message = IF answer = "401" THEN "Invalid authentication token"
                                       ELSE IF answer = "network" THEN "Network error"
                                       ELSE "API error"]
            ELSE [c EXCEPT !.csv = answer, !.at = "returned",
                           !.result = Result(TRUE, truthy, ~truthy)]
    IN
    /\ client.at = "csv"
    /\ \E answer \in CsvAnswers : client' = AfterCsv(client, answer)
    /\ UNCHANGED <<cars, tracks, _cars_by_name, _tracks_by_name, call, ret, pc, init_failed, tool>>

\* the tool goes on after the client method it awaited: get_my_fastest_lap and
\* the second half of get_team_fastest_lap write their text, the first half of
\* get_team_fastest_lap calls get_user_fastest_lap
ToolResumes ==
    /\ tool.at \in {"team", "user"}
    /\ client.at \in {"returned", "raised"}
    /\ IF tool.name = "get_my_fastest_lap"
       THEN /\ tool' = [tool EXCEPT !.at = "done", !.text = get_my_fastest_lap(client)]
            /\ UNCHANGED client
       ELSE IF tool.at = "user"
       THEN /\ tool' = [tool EXCEPT !.at = "done",
                                    !.text = get_team_fastest_lap(tool.team_result, client)]
            /\ UNCHANGED client
       ELSE IF client.at = "raised"
       THEN /\ tool' = [tool EXCEPT !.at = "done", !.text = Text("Error: ", "", FALSE)]
            /\ UNCHANGED client
       ELSE /\ tool' = [tool EXCEPT !.at = "user", !.team_result = client.result]
            /\ client' \in Begin("get_user_fastest_lap", tool.car, tool.track)
    /\ UNCHANGED <<cars, tracks, _cars_by_name, _tracks_by_name, call, ret, pc, init_failed>>

(***************************************************************************)
(* Specifications.                                                         *)
(***************************************************************************)
\* CarsTracksCache.__init__; nothing has been called yet
Init ==
    /\ cars = <<>>
    /\ tracks = <<>>
    /\ _cars_by_name = <<>>
    /\ _tracks_by_name = <<>>
    /\ call = Call("init", <<>>, FALSE, 0, NoPayload)
    /\ ret = Returned
    /\ pc = "create_client"
    /\ init_failed = ""
    /\ client = IdleClient
    /\ tool = IdleTool

store == <<cars, tracks, _cars_by_name, _tracks_by_name>>

\* where main is, the step of initialize_cache that raised ("" if none), and
\* the tool call in progress
server == <<pc, init_failed, client, tool>>

SetCars(payloads) ==
    \E cars_data \in payloads : set_cars(cars_data) /\ UNCHANGED server

SetTracks(payloads) ==
    \E tracks_data \in payloads : set_tracks(tracks_data) /\ UNCHANGED server

FindCar(queries) ==
    \E car_name \in queries, include_legacy \in BOOLEAN :
        /\ ret' \in find_car(car_name, include_legacy)
        /\ call' = Call("find_car", car_name, include_legacy, 0, NoPayload)
        /\ UNCHANGED <<store, server>>

GetCarSuggestions(queries) ==
    \E car_name \in queries, limit \in Limits, include_legacy \in BOOLEAN :
        /\ ret' = get_car_suggestions(car_name, limit, include_legacy)
        /\ call' = Call("get_car_suggestions", car_name, include_legacy, limit, NoPayload)
        /\ UNCHANGED <<store, server>>

\* find_track when it sorts self.tracks by variant score in place
FindTrack_SortsCatalog(queries) ==
    \E track_name \in queries, prefer_racing \in BOOLEAN :
        /\ ret' \in find_track(track_name, prefer_racing)
        /\ call' = Call("find_track", track_name, prefer_racing, 0, NoPayload)
        /\ tracks' = IF AllDicts(tracks)
                     THEN SortedByKeys(tracks, [i \in 1..Len(tracks) |->
                                                   VariantScore(tracks[i].variant)])
                     ELSE tracks
        /\ UNCHANGED <<cars, _cars_by_name, _tracks_by_name, server>>

FindTrack(queries) ==
    \E track_name \in queries, prefer_racing \in BOOLEAN :
        /\ ret' \in find_track(track_name, prefer_racing)
        /\ call' = Call("find_track", track_name, prefer_racing, 0, NoPayload)
        /\ UNCHANGED <<store, server>>

GetTrackSuggestions(queries) ==
    \E track_name \in queries, limit \in Limits :
        /\ ret' = get_track_suggestions(track_name, limit)
        /\ call' = Call("get_track_suggestions", track_name, FALSE, limit, NoPayload)
        /\ UNCHANGED <<store, server>>

\* the car side of the cache, the tracks never loaded
NextCars ==
    \/ SetCars(CarPayloads)
    \/ FindCar(CarQueries)
    \/ GetCarSuggestions(CarQueries)

SpecCars == Init /\ [][NextCars]_vars

\* the track side of the cache, the cars never loaded
NextTracks ==
    \/ SetTracks(TrackPayloads)
    \/ FindTrack(TrackQueries)
    \/ GetTrackSuggestions(TrackQueries)

SpecTracks == Init /\ [][NextTracks]_vars

\* _get_track_variant_score applied to a variant string
ScoreVariant ==
    \E variant \in Variants :
        /\ ret' = Scored(VariantScore(variant))
        /\ call' = Call("_get_track_variant_score", variant, FALSE, 0, NoPayload)
        /\ UNCHANGED <<store, server>>

\* the scoring of variants alone
SpecVariants == Init /\ [][ScoreVariant]_vars

\* _get_car_generation_score applied to a car name
ScoreCar ==
    \E car_name \in ScoreNames :
        /\ ret' = Scored(GenerationScore(car_name))
        /\ call' = Call("_get_car_generation_score", car_name, FALSE, 0, NoPayload)
        /\ UNCHANGED <<store, server>>

\* the scoring of car names alone
SpecScores == Init /\ [][ScoreCar]_vars

\* the whole cache, on a few payloads and queries of each kind
Next ==
    \/ SetCars(CoreCarPayloads)
    \/ SetTracks(CoreTrackPayloads)
    \/ FindCar(CoreQueries)
    \/ GetCarSuggestions(CoreQueries)
    \/ FindTrack(CoreQueries)
    \/ GetTrackSuggestions(CoreQueries)

Spec == Init /\ [][Next]_vars

\* main when the exception of initialize_cache is not caught: the process ends
StartupFailed_Fatal(step) ==
    /\ pc' = "exited"
    /\ init_failed' = step
    /\ UNCHANGED <<client, tool>>

\* main when initialize_cache raised at step: the failure is logged and main
\* goes on to run the server
StartupFailed(step) ==
    /\ pc' = "serving"
    /\ init_failed' = step
    /\ UNCHANGED <<client, tool>>

\* initialize_cache: create_client(), which raises ValueError without a token
CreateClient ==
    /\ pc = "create_client"
    /\ call' = Call("create_client", <<>>, FALSE, 0, NoPayload)
    /\ \/ ret' = Returned /\ pc' = "get_cars" /\ UNCHANGED <<init_failed, client, tool>>
       \/ ret' = Raised("ValueError") /\ StartupFailed("create_client")
    /\ UNCHANGED store

\* initialize_cache: await client.get_cars() raises
GetCarsFails ==
    /\ pc = "get_cars"
    /\ call' = Call("get_cars", <<>>, FALSE, 0, NoPayload)
    /\ ret' = Raised("ValueError")
    /\ StartupFailed("get_cars")
    /\ UNCHANGED store

\* initialize_cache: cars = await client.get_cars(); cache.set_cars(cars)
LoadCars ==
    /\ pc = "get_cars"
    /\ \E cars_data \in CoreCarPayloads :
           /\ set_cars(cars_data)
           /\ IF ret' = Returned
              THEN pc' = "get_tracks" /\ UNCHANGED <<init_failed, client, tool>>
              ELSE StartupFailed("set_cars")

\* initialize_cache: await client.get_tracks() raises
GetTracksFails ==
    /\ pc = "get_tracks"
    /\ call' = Call("get_tracks", <<>>, FALSE, 0, NoPayload)
    /\ ret' = Raised("ValueError")
    /\ StartupFailed("get_tracks")
    /\ UNCHANGED store

\* initialize_cache: tracks = await client.get_tracks(); cache.set_tracks(tracks)
LoadTracks ==
    /\ pc = "get_tracks"
    /\ \E tracks_data \in CoreTrackPayloads :
           /\ set_tracks(tracks_data)
           /\ IF ret' = Returned
              THEN pc' = "serving" /\ UNCHANGED <<init_failed, client, tool>>
              ELSE StartupFailed("set_tracks")

\* a lookup made while the initialization may still be running
ServeFindCar_WhileLoading == FindCar(CoreQueries)

\* call_tool, reached from server.run: the lookups the tools make
ServeFindCar == pc = "serving" /\ FindCar(CoreQueries)

ServeGetCarSuggestions == pc = "serving" /\ GetCarSuggestions(CoreQueries)

ServeFindTrack == pc = "serving" /\ FindTrack(CoreQueries)

ServeGetTrackSuggestions == pc = "serving" /\ GetTrackSuggestions(CoreQueries)

\* the server process: main runs initialize_cache, then the server
NextServer ==
    \/ CreateClient
    \/ GetCarsFails
    \/ LoadCars
    \/ GetTracksFails
    \/ LoadTracks
    \/ ServeFindCar
    \/ ServeGetCarSuggestions
    \/ ServeFindTrack
    \/ ServeGetTrackSuggestions

SpecServer == Init /\ [][NextServer]_vars

\* the server process with the fastest-lap tools: main runs initialize_cache,
\* then call_tool runs get_my_fastest_lap and get_team_fastest_lap
NextLaps ==
    \/ CreateClient
    \/ GetCarsFails
    \/ LoadCars
    \/ GetTracksFails
    \/ LoadTracks
    \/ CallTool
    \/ LapsAnswered
    \/ CsvAnswered
    \/ ToolResumes

SpecLaps == Init /\ [][NextLaps]_vars

(***************************************************************************)
(* Properties of the resolver and the store.                               *)
(***************************************************************************)
\* the catalog of cars is loaded: a non-empty list of entity objects, with the
\* index set_cars builds from it
CarsPopulated ==
    cars # <<>> /\ AllDicts(cars) /\ _cars_by_name = CarIndex(cars)

\* C1: on a populated catalog, find_car, find_track, get_car_suggestions and
\* get_track_suggestions end with an (id, name) pair, not-found or a list, and
\* never raise, whatever the query and the flag.
C1_LookupsNeverRaise ==
    LET
        TracksPopulated ==
            tracks # <<>> /\ AllDicts(tracks) /\ _tracks_by_name = TrackIndex(tracks)
    IN
    /\ (call.op \in {"find_car", "get_car_suggestions"} /\ CarsPopulated)
           => ret.kind \in {"pair", "none", "list"}
    /\ (call.op \in {"find_track", "get_track_suggestions"} /\ TracksPopulated)
           => ret.kind \in {"pair", "none", "list"}

\* find_car has raised IndexError on a populated catalog, for a query without
\* legacy keyword whose partial matches are all legacy cars
C1_PartialAllLegacyRaises ==
    /\ CarsPopulated
    /\ call.op = "find_car"
    /\ ~call.flag
    /\ ~HasLegacyKeyword(lower(call.q))
    /\ \A i \in 1..Len(cars) : IsLegacyCar(cars[i].name)
    /\ ret = Raised("IndexError")

\* the cars of the catalog whose name lower-cases to key
CarsNamed(key) == {i \in 1..Len(cars) : lower(cars[i].name) = key}

\* C2 (as stated): find_car with the name of a catalog car E in any letter
\* case returns (E.id, E.name), for either flag.
C2_ExactNameReturnsThatCar ==
    (CarsPopulated /\ call.op = "find_car")
        => \A i \in CarsNamed(lower(call.q)) : ret = CarPair(cars[i])

\* C2 (amended): find_car with a query that equals the name of a catalog car
\* case-insensitively returns the last car of the catalog with that
\* case-insensitive name, for either flag and whatever the partial and fuzzy
\* candidates are; it is car E itself when no later car shares E's name
\* case-insensitively.
C2_ExactNameReturnsLastSuchCar ==
    (CarsPopulated /\ call.op = "find_car" /\ CarsNamed(lower(call.q)) # {})
        => ret = CarPair(cars[SetMax(CarsNamed(lower(call.q)))])

\* find_car was given the name of a legacy car in another letter case, without
\* include_legacy, on a catalog with a second car, and returned the legacy car
C2_ExactLegacyFound ==
    /\ CarsPopulated
    /\ Len(cars) = 2
    /\ call.op = "find_car"
    /\ ~call.flag
    /\ \E i \in CarsNamed(lower(call.q)) :
           /\ call.q # cars[i].name
           /\ IsLegacyCar(cars[i].name)
           /\ ret = CarPair(cars[i])

\* C3: without include_legacy and without legacy keyword in the query,
\* find_car returns a legacy car only when the query equals its name
\* case-insensitively; and when a car that is not legacy matches partially,
\* find_car returns a car that is not legacy.
C3_LegacyOnlyByExactName ==
    (call.op = "find_car" /\ ~call.flag /\ ~HasLegacyKeyword(lower(call.q)))
        => /\ (ret.kind = "pair" /\ IsLegacyCar(ret.name))
                  => lower(call.q) = lower(ret.name)
           /\ (/\ ~DictHas(_cars_by_name, lower(call.q))
               /\ \E car \in Range(PartialCarMatches(lower(call.q),
                                                    split(lower(call.q)))) :
                      ~IsLegacyCar(car.name))
                  => (ret.kind = "pair" /\ ~IsLegacyCar(ret.name))

\* a legacy car and a modern car both match the query partially, and find_car
\* returned the modern one
C3_ModernPreferred ==
    /\ CarsPopulated
    /\ call.op = "find_car"
    /\ ~call.flag
    /\ ~HasLegacyKeyword(lower(call.q))
    /\ ~DictHas(_cars_by_name, lower(call.q))
    /\ \E car \in Range(PartialCarMatches(lower(call.q), split(lower(call.q)))) :
           IsLegacyCar(car.name)
    /\ ret.kind = "pair"
    /\ ~IsLegacyCar(ret.name)

\* C4: when the lower-cased query contains a legacy keyword, the flag of the
\* caller is irrelevant: find_car and get_car_suggestions have the same
\* outcomes with the flag false and true, and the call made has an outcome
\* of the call with the other flag.
C4_KeywordOverridesFlag ==
    (call.op \in {"find_car", "get_car_suggestions"}
     /\ HasLegacyKeyword(lower(call.q)))
        => /\ find_car(call.q, FALSE) = find_car(call.q, TRUE)
           /\ \A limit \in Limits :
                  get_car_suggestions(call.q, limit, FALSE)
                      = get_car_suggestions(call.q, limit, TRUE)
           /\ call.op = "find_car" => ret \in find_car(call.q, ~call.flag)
           /\ call.op = "get_car_suggestions"
                  => ret = get_car_suggestions(call.q, call.limit, ~call.flag)

\* find_car, called without include_legacy with a query that holds a legacy
\* keyword and is not the name of a car, returned a legacy car
C4_KeywordFindsLegacy ==
    /\ CarsPopulated
    /\ call.op = "find_car"
    /\ ~call.flag
    /\ HasLegacyKeyword(lower(call.q))
    /\ ~DictHas(_cars_by_name, lower(call.q))
    /\ ret.kind = "pair"
    /\ IsLegacyCar(ret.name)


\* the entity objects of a stored list
Entities(l) == {l[i] : i \in {k \in 1..Len(l) : l[k].kind = "dict"}}

\* C5: every (id, name) that find_car or find_track returns and every name
\* that a suggestion function returns is that of an entity of the list stored
\* from the most recent payload of its type.
C5_OnlyLatestPayload ==
    /\ (call.op = "find_car" /\ ret.kind = "pair")
           => \E car \in Entities(cars) : ret = CarPair(car)
    /\ (call.op = "get_car_suggestions" /\ ret.kind = "list")
           => \A n \in Range(ret.list) : \E car \in Entities(cars) : n = car.name
    /\ (call.op = "find_track" /\ ret.kind = "pair")
           => \E track \in Entities(tracks) : ret = TrackPair(track)
    /\ (call.op = "get_track_suggestions" /\ ret.kind = "list")
           => \A n \in Range(ret.list) :
                  \E track \in Entities(tracks) :
                      n = _format_track_name_with_variant(track)

\* find_car has returned a car that the stored list does not hold
C5_StaleCarReturned ==
    /\ call.op = "find_car"
    /\ ret.kind = "pair"
    /\ \A car \in Entities(cars) : ret # CarPair(car)

\* C6: in every state the index is in step with the stored list: every value
\* of an index is an element of the stored list, every stored car is indexed
\* under its lower-cased name and every stored track with a name under its
\* lower-cased name.
C6_IndexInStepWithList ==
    /\ \A i \in 1..Len(_cars_by_name) : _cars_by_name[i].v \in Range(cars)
    /\ \A car \in Entities(cars) : DictHas(_cars_by_name, lower(car.name))
    /\ \A i \in 1..Len(_tracks_by_name) : _tracks_by_name[i].v \in Range(tracks)
    /\ \A track \in Entities(tracks) :
           track.name # <<>> => DictHas(_tracks_by_name, lower(track.name))

\* set_cars has raised and left the index of an earlier list beside the list
\* it stored
C6_ListReplacedIndexKept ==
    /\ call.op = "set_cars"
    /\ ret = Raised("AttributeError")
    /\ cars = StoredList(call.payload)
    /\ _cars_by_name # <<>>
    /\ \A i \in 1..Len(_cars_by_name) : _cars_by_name[i].v \notin Range(cars)

\* a payload of a recognized shape: an envelope whose items are entity
\* objects, a list of entity objects or a list of strings
Recognized(data) ==
    \/ data.shape = "envelope" /\ AllDicts(data.items)
    \/ /\ data.shape = "list"
       /\ data.items # <<>>
       /\ \/ AllDicts(data.items)
          \/ \A i \in 1..Len(data.items) : data.items[i].kind = "str"

\* C7: on a payload of no recognized shape set_cars and set_tracks return
\* normally and leave the list and the index of their type empty.
C7_UnrecognizedFailsSoft ==
    /\ (call.op = "set_cars" /\ ~Recognized(call.payload))
           => (ret = Returned /\ cars = <<>> /\ _cars_by_name = <<>>)
    /\ (call.op = "set_tracks" /\ ~Recognized(call.payload))
           => (ret = Returned /\ tracks = <<>> /\ _tracks_by_name = <<>>)

\* set_tracks has raised on a payload of no recognized shape and left a list
\* and an index that are not empty
C7_UnrecognizedRaises ==
    /\ call.op = "set_tracks"
    /\ ~Recognized(call.payload)
    /\ ret = Raised("AttributeError")
    /\ tracks # <<>>
    /\ _tracks_by_name # <<>>

\* C8: on a catalog that holds no car, find_car returns not-found and
\* get_car_suggestions the empty list; on a catalog that holds no track,
\* find_track returns not-found and get_track_suggestions the empty list.
C8_EmptyCatalogFindsNothing ==
    /\ (call.op = "find_car" /\ cars = <<>>) => ret = None
    /\ (call.op = "get_car_suggestions" /\ cars = <<>>) => ret = Names(<<>>)
    /\ (call.op = "find_track" /\ tracks = <<>>) => ret = None
    /\ (call.op = "get_track_suggestions" /\ tracks = <<>>) => ret = Names(<<>>)

\* find_car was given a query that is not empty while there is no car, though
\* there are tracks, and returned not-found
C8_NothingFoundAmongNoCars ==
    /\ call.op = "find_car"
    /\ call.q # <<>>
    /\ cars = <<>>
    /\ _cars_by_name = <<>>
    /\ tracks # <<>>
    /\ ret = None

\* the keys under which set_tracks stores a track with a variant
FullName(track) == strip(lower(track.name) \o <<" ">> \o lower(track.variant))

FullNameDash(track) == strip(lower(track.name) \o <<" ", "-", " ">> \o lower(track.variant))

\* the tracks with a variant that set_tracks stores under key
VariantsUnder(key) ==
    {i \in 1..Len(tracks) :
        tracks[i].variant # <<>> /\ key \in {FullName(tracks[i]), FullNameDash(tracks[i])}}

\* the tracks whose base name lower-cases to key
TracksNamed(key) == {i \in 1..Len(tracks) : lower(tracks[i].name) = key}

\* C9 (as stated): after set_tracks on a list of track entities every track T
\* with a variant is the entity stored under lower("{name} {variant}") and
\* under lower("{name} - {variant}"), and find_track with either form returns
\* the id of T.
C9_VariantKeysReachTheirTrack ==
    AllDicts(tracks)
        => \A i \in 1..Len(tracks) :
               tracks[i].variant # <<>>
                   => \A key \in {lower(tracks[i].name \o <<" ">> \o tracks[i].variant),
                                  lower(tracks[i].name \o <<" ", "-", " ">> \o tracks[i].variant)} :
                          /\ DictHas(_tracks_by_name, key)
                          /\ DictGet(_tracks_by_name, key) = tracks[i]
                          /\ (call.op = "find_track" /\ lower(call.q) = key)
                                 => (ret.kind = "pair" /\ ret.id = tracks[i].id)

\* C9 (amended): after set_tracks on a list of track entities, each of the two
\* keys of a track T with a variant - lower-cased "{name} {variant}" and
\* "{name} - {variant}", stripped of outer blanks - holds the last track of
\* the list with a variant that has this key, and find_track with the key in
\* any letter case returns that track: T itself unless a later track with a
\* variant has the same key.  Bare names equal to the key never displace it.
C9_VariantKeysReachLastSuchTrack ==
    AllDicts(tracks)
        => \A i \in 1..Len(tracks) :
               tracks[i].variant # <<>>
                   => \A key \in {FullName(tracks[i]), FullNameDash(tracks[i])} :
                          /\ DictHas(_tracks_by_name, key)
                          /\ DictGet(_tracks_by_name, key)
                                 = tracks[SetMax(VariantsUnder(key))]
                          /\ (call.op = "find_track" /\ lower(call.q) = key)
                                 => ret = TrackPair(tracks[SetMax(VariantsUnder(key))])

\* find_track was given the full name of a track with a variant that is also
\* the bare name of an earlier track, and returned the track with the variant
C9_VariantKeyBeatsBareName ==
    /\ AllDicts(tracks)
    /\ call.op = "find_track"
    /\ \E i \in VariantsUnder(lower(call.q)) :
           /\ \E j \in 1..(i - 1) : j \in TracksNamed(lower(call.q))
           /\ ret = TrackPair(tracks[i])

DistinctDisplayedNames ==
    \A i, j \in 1..Len(tracks) :
        i # j => lower(_format_track_name_with_variant(tracks[i]))
                     # lower(_format_track_name_with_variant(tracks[j]))

\* C11: for every track T of the catalog, find_track given the name displayed
\* for T ("{name}", or "{name} - {variant}" when T has a variant) returns the
\* id of T and the same displayed name, also when T has no variant and comes
\* after a variant of its base name.
C11_DisplayedNameResolvesToItsTrack ==
    (AllDicts(tracks) /\ DistinctDisplayedNames /\ call.op = "find_track")
        => \A i \in 1..Len(tracks) :
               call.q = _format_track_name_with_variant(tracks[i])
                   => ret = TrackPair(tracks[i])

\* find_track was given the displayed name of a track without variant that
\* comes after a variant of its base name, and returned the variant
C11_BareNameAfterVariantLost ==
    /\ AllDicts(tracks)
    /\ DistinctDisplayedNames
    /\ call.op = "find_track"
    /\ \E i, j \in 1..Len(tracks) :
           /\ i < j
           /\ tracks[i].name = tracks[j].name
           /\ tracks[i].variant # <<>>
           /\ tracks[j].variant = <<>>
           /\ call.q = _format_track_name_with_variant(tracks[j])
           /\ ret = TrackPair(tracks[i])

\* the preferred patterns, and the less preferred patterns, found in a variant
PreferredFound(variant) ==
    {i \in 1..Len(preferred_patterns) :
        re_search(preferred_patterns[i][1], lower(variant))}

LessPreferredFound(variant) ==
    {i \in 1..Len(less_preferred_patterns) :
        re_search(less_preferred_patterns[i][1], lower(variant))}

\* C12: the score of a variant is 50 when the variant is empty or no pattern
\* is found in it; when a preferred pattern is found it is the score of the
\* first preferred pattern found, in 70..100, also when a less preferred
\* pattern is found too; otherwise it is the score of the first less preferred
\* pattern found, in 15..45.  "Grand Prix" scores 100, "Short" 45, "Moto" 40.
C12_VariantScoreByPreference ==
    /\ call.op = "_get_track_variant_score"
           => /\ ret.kind = "int"
              /\ (call.q = <<>>
                  \/ (PreferredFound(call.q) = {} /\ LessPreferredFound(call.q) = {}))
                     => ret.id = 50
              /\ (call.q # <<>> /\ PreferredFound(call.q) # {})
                     => /\ ret.id = preferred_patterns[SetMin(PreferredFound(call.q))][2]
                        /\ ret.id \in 70..100
              /\ (call.q # <<>> /\ PreferredFound(call.q) = {}
                  /\ LessPreferredFound(call.q) # {})
                     => /\ ret.id
                              = less_preferred_patterns[SetMin(LessPreferredFound(call.q))][2]
                        /\ ret.id \in 15..45
    /\ (call.op = "_get_track_variant_score" /\ call.q = <<"G", "r", "a", "n", "d", " ", "P", "r", "i", "x">>) => ret.id = 100
    /\ (call.op = "_get_track_variant_score" /\ call.q = <<"S", "h", "o", "r", "t">>) => ret.id = 45
    /\ (call.op = "_get_track_variant_score" /\ call.q = <<"M", "o", "t", "o">>) => ret.id = 40

\* a variant in which a less preferred word comes before a preferred one was
\* given the preferred score
C12_PreferredWinsOverLessPreferred ==
    /\ call.op = "_get_track_variant_score"
    /\ call.q = <<"S", "h", "o", "r", "t", " ", "O", "v", "a", "l">>
    /\ PreferredFound(call.q) # {}
    /\ LessPreferredFound(call.q) # {}
    /\ ret.id = 80

\* the operations of the resolver
ResolverOps == {"find_car", "find_track", "get_car_suggestions", "get_track_suggestions"}

\* C13: a call of find_car, find_track, get_car_suggestions or
\* get_track_suggestions leaves the car list, the track list (the order of its
\* elements too) and both indexes as they were, whatever the query and the
\* outcome.
C13_LookupsLeaveCatalogUnchanged ==
    [][call'.op \in ResolverOps
           => /\ cars' = cars
              /\ tracks' = tracks
              /\ _cars_by_name' = _cars_by_name
              /\ _tracks_by_name' = _tracks_by_name]_vars

\* find_track has returned a track of a catalog whose tracks are not in the
\* order of their variant scores
C13_LookupOnUnsortedCatalog ==
    /\ call.op = "find_track"
    /\ ret.kind = "pair"
    /\ AllDicts(tracks)
    /\ \E i, j \in 1..Len(tracks) :
           i < j /\ VariantScore(tracks[i].variant) < VariantScore(tracks[j].variant)
    /\ _tracks_by_name # <<>>

\* C14: for a catalog, a query and a flag, find_car has one result and
\* find_track has one result: the result of a call is the only one that the
\* call can have, in this run of the program or in another.
C14_ResolutionDeterministic ==
    /\ call.op = "find_car" => find_car(call.q, call.flag) = {ret}
    /\ call.op = "find_track" => find_track(call.q, call.flag) = {ret}

\* find_car has returned one of two cars that the fuzzy step of a query of
\* several words can return, the order of set(matches + word_matches)
\* deciding which
C14_ResultDependsOnSetOrder ==
    /\ call.op = "find_car"
    /\ Len(split(lower(call.q))) > 1
    /\ ret.kind = "pair"
    /\ \E other \in find_car(call.q, call.flag) : other.kind = "pair" /\ other.id # ret.id

\* C15: set_cars is called only by the initialization, at its step after
\* get_cars, and set_tracks at its step after get_tracks; a lookup is made
\* only once the initialization has completed or failed and the server runs;
\* from then on the server keeps running and the catalog is never set again.
C15_LoadingBeforeServing ==
    [][/\ call'.op = "set_cars" => pc = "get_cars"
       /\ call'.op = "set_tracks" => pc = "get_tracks"
       /\ call'.op \in ResolverOps => pc = "serving"
       /\ pc = "serving"
              => /\ pc' = "serving"
                 /\ call'.op \in ResolverOps
                 /\ cars' = cars
                 /\ tracks' = tracks
                 /\ _cars_by_name' = _cars_by_name
                 /\ _tracks_by_name' = _tracks_by_name]_vars

\* the server, after an initialization that loaded cars and tracks, has made
\* a lookup that found an entity
C15_LookupServedAfterLoading ==
    /\ pc = "serving"
    /\ init_failed = ""
    /\ cars # <<>>
    /\ tracks # <<>>
    /\ call.op \in ResolverOps
    /\ ret.kind = "pair"

\* a lookup that has found nothing
NotFound ==
    /\ call.op \in {"find_car", "find_track"} => ret = None
    /\ call.op \in {"get_car_suggestions", "get_track_suggestions"} => ret = Names(<<>>)

\* C16 (as stated): when the initialization has failed at the creation of the
\* client, at the fetch of the cars or at the fetch of the tracks, the server
\* runs, the car list and the track list are empty and every lookup finds
\* nothing.
C16_FailedStartupLeavesCatalogEmpty ==
    init_failed \in {"create_client", "get_cars", "get_tracks"}
        => /\ pc = "serving"
           /\ cars = <<>>
           /\ tracks = <<>>
           /\ call.op \in ResolverOps => NotFound

\* C16 (amended): when the initialization has failed, the server runs.  After
\* a failure at the creation of the client or at the fetch of the cars, the
\* car list, the track list and both indexes are empty and every lookup finds
\* nothing.  After a failure at the fetch of the tracks, the track list and
\* its index are empty and every track lookup finds nothing, while the cars
\* that set_cars stored before stay in the list and in the index.
C16_FailedStartupKeepsLoadedCars ==
    /\ init_failed # "" => pc = "serving"
    /\ init_failed \in {"create_client", "get_cars"}
           => /\ cars = <<>> /\ _cars_by_name = <<>>
              /\ tracks = <<>> /\ _tracks_by_name = <<>>
              /\ call.op \in ResolverOps => NotFound
    /\ init_failed = "get_tracks"
           => /\ tracks = <<>> /\ _tracks_by_name = <<>>
              /\ call.op \in {"find_track", "get_track_suggestions"} => NotFound
              /\ AllDicts(cars)
              /\ _cars_by_name = CarIndex(cars)

\* the fetch of the tracks failed and the server has found a car among the
\* cars loaded before
C16_CarFoundAfterTracksFailed ==
    /\ pc = "serving"
    /\ init_failed = "get_tracks"
    /\ call.op = "find_car"
    /\ ret.kind = "pair"
    /\ \E car \in Entities(cars) : ret = CarPair(car)
    /\ tracks = <<>>

\* the elements of a list of names are pairwise different
NoRepeats(l) == \A i, j \in 1..Len(l) : i # j => l[i] # l[j]

\* C17: get_car_suggestions returns at most limit names, none of them twice,
\* each the name of a car of the catalog, in the order of non-increasing
\* generation score, and the name of no legacy car unless include_legacy is
\* set or the query holds a legacy keyword.
C17_SuggestionsBoundedRankedFiltered ==
    (call.op = "get_car_suggestions" /\ call.limit >= 1)
        => /\ ret.kind = "list"
           /\ Len(ret.list) <= call.limit
           /\ NoRepeats(ret.list)
           /\ \A i \in 1..Len(ret.list) :
                  \E car \in Entities(cars) : car.name = ret.list[i]
           /\ \A i, j \in 1..Len(ret.list) :
                  i < j => GenerationScore(ret.list[i]) >= GenerationScore(ret.list[j])
           /\ (~call.flag /\ ~HasLegacyKeyword(lower(call.q)))
                  => \A i \in 1..Len(ret.list) : ~IsLegacyCar(ret.list[i])

\* get_car_suggestions has returned the name of a car of an earlier payload,
\* left in the index by a set_cars that raised, which the car list does not hold
C17_SuggestedCarNotInCatalog ==
    /\ call.op = "get_car_suggestions"
    /\ ret.kind = "list"
    /\ \E i \in 1..Len(ret.list) :
           \A car \in Entities(cars) : car.name # ret.list[i]
    /\ cars # <<>>
    /\ ~AllDicts(cars)

\* C18: get_track_suggestions returns at most limit names, none of them
\* twice, though a track is stored under up to three keys, and each returned
\* name is the displayed name ("name" or "name - variant") of a track of the
\* catalog.
C18_TrackSuggestionsBoundedDistinct ==
    (call.op = "get_track_suggestions" /\ call.limit >= 1)
        => /\ ret.kind = "list"
           /\ Len(ret.list) <= call.limit
           /\ NoRepeats(ret.list)
           /\ \A i \in 1..Len(ret.list) :
                  \E track \in Entities(tracks) :
                      ret.list[i] = _format_track_name_with_variant(track)

\* get_track_suggestions has listed once a track that it found under three
\* keys of the index
C18_TrackUnderThreeKeysListedOnce ==
    LET
        \* the index keys under which a track is stored that hold the query
        KeysHolding(track, q) ==
            {k \in 1..Len(_tracks_by_name) :
                _tracks_by_name[k].v = track /\ IsIn(lower(q), _tracks_by_name[k].k)}
    IN
    /\ call.op = "get_track_suggestions"
    /\ ret.kind = "list"
    /\ \E track \in Entities(tracks) :
           /\ Cardinality(KeysHolding(track, call.q)) = 3
           /\ Cardinality({i \in 1..Len(ret.list) :
                  ret.list[i] = _format_track_name_with_variant(track)}) = 1

\* the partial matches of the query of the call last made
PartialsOfCall == PartialCarMatches(lower(call.q), split(lower(call.q)))

\* C19: when the query is no key of the index and exactly one entry of the
\* index matches it partially, find_car returns that entry, whether
\* include_legacy is set or not.
C19_SinglePartialMatchReturned ==
    (call.op = "find_car"
     /\ ~DictHas(_cars_by_name, lower(call.q))
     /\ Len(PartialsOfCall) = 1)
        => ret = CarPair(PartialsOfCall[1])

\* find_car, without include_legacy, had a legacy car as its only partial
\* match and raised IndexError
C19_LoneLegacyCandidateRaises ==
    /\ call.op = "find_car"
    /\ ~call.flag
    /\ ~DictHas(_cars_by_name, lower(call.q))
    /\ Len(PartialsOfCall) = 1
    /\ IsLegacyCar(PartialsOfCall[1].name)
    /\ ret = Raised("IndexError")

\* the partial matches of the call last made that are left after the legacy
\* filter, in index order
CandidatesOfCall ==
    IF call.flag \/ HasLegacyKeyword(lower(call.q)) THEN PartialsOfCall
    ELSE SelectSeq(PartialsOfCall, LAMBDA car : ~IsLegacyCar(car.name))

\* the candidates whose name has every word of the query as a whole word
WholeWordCandidates ==
    {i \in 1..Len(CandidatesOfCall) :
        AllWordsAmong(split(lower(call.q)), split(lower(CandidatesOfCall[i].name)))}

\* C20: when the query is no key of the index and several partial matches are
\* left after the legacy filter, find_car returns the candidate that comes
\* first, in the order of descending generation score with equal scores in
\* index order, among those whose name has every word of the query as a whole
\* word, or among all candidates if there is none such.
C20_FirstWholeWordCandidateInScoreOrder ==
    LET
        \* candidate i comes before candidate j in the order of descending generation
        \* score, equal scores in index order
        RankedBefore(i, j) ==
            \/ GenerationScore(CandidatesOfCall[i].name) > GenerationScore(CandidatesOfCall[j].name)
            \/ /\ GenerationScore(CandidatesOfCall[i].name) = GenerationScore(CandidatesOfCall[j].name)
               /\ i <= j
    IN
    (call.op = "find_car"
     /\ ~DictHas(_cars_by_name, lower(call.q))
     /\ Len(CandidatesOfCall) > 1)
        => \E i \in (IF WholeWordCandidates # {} THEN WholeWordCandidates
                     ELSE 1..Len(CandidatesOfCall)) :
               /\ ret = CarPair(CandidatesOfCall[i])
               /\ \A j \in (IF WholeWordCandidates # {} THEN WholeWordCandidates
                            ELSE 1..Len(CandidatesOfCall)) : RankedBefore(i, j)

\* find_car has returned a candidate with the query as a whole word although
\* a candidate of a higher score, without the whole word, comes first in the
\* index
C20_WholeWordBeatsHigherScore ==
    /\ call.op = "find_car"
    /\ ~DictHas(_cars_by_name, lower(call.q))
    /\ Len(CandidatesOfCall) > 1
    /\ \E i \in WholeWordCandidates :
           /\ ret = CarPair(CandidatesOfCall[i])
           /\ \E j \in 1..(i - 1) :
                  /\ j \notin WholeWordCandidates
                  /\ GenerationScore(CandidatesOfCall[j].name)
                         > GenerationScore(CandidatesOfCall[i].name)

(***************************************************************************)
(* Claims C21 to C30.                                                      *)
(***************************************************************************)
\* the cars that the fuzzy step of the call last made may return: those stored
\* under the close matches of the whole query, or, when there are none and the
\* query has several words, under the close matches of its words, that are
\* left after the legacy filter
FuzzyCandidatesOfCall ==
    LET q == lower(call.q)
        keys == DictKeys(_cars_by_name)
        whole == get_close_matches(q, keys, 10, 3, 10)
        names == IF whole # <<>> \/ Len(split(q)) <= 1 THEN Range(whole)
                 ELSE UNION {Range(get_close_matches(split(q)[i], keys, 5, 3, 10)) :
                             i \in 1..Len(split(q))}
        found == {DictGet(_cars_by_name, n) : n \in names}
    IN  IF call.flag \/ HasLegacyKeyword(q) THEN found
        ELSE {car \in found : ~IsLegacyCar(car.name)}

\* C21: find_car returns from its fuzzy step only when the query is no key of
\* the index and has no partial match; it then returns a fuzzy candidate left
\* after the legacy filter whose generation score no other such candidate
\* exceeds, and None when no candidate is left.  With a key or a partial match
\* the result is the entry under the key, or one of the partial matches or
\* IndexError.
C21_FuzzyStepReturnsTopSurvivor ==
    call.op = "find_car" =>
        IF DictHas(_cars_by_name, lower(call.q))
        THEN ret = CarPair(DictGet(_cars_by_name, lower(call.q)))
        ELSE IF PartialsOfCall # <<>>
        THEN \/ ret = Raised("IndexError")
             \/ \E i \in 1..Len(PartialsOfCall) : ret = CarPair(PartialsOfCall[i])
        ELSE IF FuzzyCandidatesOfCall = {} THEN ret = None
        ELSE \E car \in FuzzyCandidatesOfCall :
                 /\ ret = CarPair(car)
                 /\ \A other \in FuzzyCandidatesOfCall :
                        GenerationScore(other.name) <= GenerationScore(car.name)

\* find_car has returned, from its fuzzy step, a candidate of a higher
\* generation score than another candidate which matches the query more
\* closely
C21_HigherScoreBeatsCloserMatch ==
    /\ call.op = "find_car"
    /\ ~DictHas(_cars_by_name, lower(call.q))
    /\ PartialsOfCall = <<>>
    /\ \E car \in FuzzyCandidatesOfCall :
           /\ ret = CarPair(car)
           /\ \E other \in FuzzyCandidatesOfCall :
                  /\ GenerationScore(other.name) < GenerationScore(car.name)
                  /\ Ratio(lower(other.name), lower(call.q))[1]
                             * Ratio(lower(car.name), lower(call.q))[2]
                         > Ratio(lower(car.name), lower(call.q))[1]
                               * Ratio(lower(other.name), lower(call.q))[2]

\* C22: the generation score of a name is 0 exactly when _is_legacy_car holds
\* of it, also when the name carries a newer chassis code, a recent year or a
\* modern indicator; the score of every other name is above 0.
C22_ZeroScoreIffLegacy ==
    call.op = "_get_car_generation_score"
        => /\ ret.kind = "int"
           /\ ret.id = 0 <=> IsLegacyCar(call.q)
           /\ ~IsLegacyCar(call.q) => ret.id > 0

\* a legacy name of a Porsche with the chassis code 992 was given the score 0
C22_LegacyWithNewerChassisScoresZero ==
    /\ call.op = "_get_car_generation_score"
    /\ IsLegacyCar(call.q)
    /\ IsIn(<<"p", "o", "r", "s", "c", "h", "e">>, lower(call.q))
    /\ IsIn(<<"9", "9", "2">>, lower(call.q))
    /\ ret.id = 0

\* the year patterns, of those numbered in years, that are found in a name
YearsFound(car_name, years) ==
    {i \in years : re_search(year_patterns[i][1], lower(car_name))}

\* the name holds "porsche" and the generation literal
HasGeneration(car_name, literal) ==
    IsIn(<<"p", "o", "r", "s", "c", "h", "e">>, lower(car_name)) /\ IsIn(literal, lower(car_name))

\* the name holds one of the modern indicators
HasModernIndicator(car_name) ==
    \E k \in 1..Len(modern_patterns) : re_search(modern_patterns[k][1], lower(car_name))

\* C23 as stated: the score 40 of a name that is not legacy and has no year,
\* generation literal or modern indicator is above the legacy score 0 and
\* below the score of every name that is not legacy and has a year or a
\* generation literal.
C23_BaselineBelowEveryYearOrGeneration ==
    (call.op = "_get_car_generation_score" /\ ~IsLegacyCar(call.q))
        => /\ (/\ YearsFound(call.q, 1..Len(year_patterns)) = {}
               /\ ~HasGeneration(call.q, <<"9", "9", "2">>)
               /\ ~HasGeneration(call.q, <<"9", "9", "1">>)
               /\ ~HasModernIndicator(call.q))
                  => ret.id = BaseScore
           /\ LegacyScore < BaseScore
           /\ (\/ YearsFound(call.q, 1..Len(year_patterns)) # {}
               \/ HasGeneration(call.q, <<"9", "9", "2">>)
               \/ HasGeneration(call.q, <<"9", "9", "1">>))
                  => ret.id > BaseScore

\* C23: the score 40 of a name that is not legacy and has no year, generation
\* literal or modern indicator is above the legacy score 0 and below the score
\* of every name that is not legacy and has the generation literal 992, or
\* no generation literal and a year from 2018 on.  A name that is not legacy
\* scores below 40 with the generation literal 991 (10), and, without a later
\* year, with the year 2017 (30) or 2011 (10).
C23_BaselineBelowRecentYearOrGeneration ==
    (call.op = "_get_car_generation_score" /\ ~IsLegacyCar(call.q))
        => /\ (/\ YearsFound(call.q, 1..Len(year_patterns)) = {}
               /\ ~HasGeneration(call.q, <<"9", "9", "2">>)
               /\ ~HasGeneration(call.q, <<"9", "9", "1">>)
               /\ ~HasModernIndicator(call.q))
                  => ret.id = BaseScore
           /\ LegacyScore < BaseScore
           /\ (\/ HasGeneration(call.q, <<"9", "9", "2">>)
               \/ /\ ~HasGeneration(call.q, <<"9", "9", "1">>)
                  /\ YearsFound(call.q, 1..4) # {})
                  => ret.id > BaseScore
           /\ (\/ HasGeneration(call.q, <<"9", "9", "1">>) /\ ~HasGeneration(call.q, <<"9", "9", "2">>)
               \/ /\ ~HasGeneration(call.q, <<"9", "9", "2">>)
                  /\ YearsFound(call.q, 1..4) = {}
                  /\ YearsFound(call.q, 5..Len(year_patterns)) # {})
                  => ret.id < BaseScore

\* a name that is not legacy, whose only year is 2017, was given a score below
\* 40
C23_Year2017BelowBaseline ==
    /\ call.op = "_get_car_generation_score"
    /\ ~IsLegacyCar(call.q)
    /\ ~HasGeneration(call.q, <<"9", "9", "1">>)
    /\ YearsFound(call.q, 1..Len(year_patterns)) = {5}
    /\ ret.id = 30
    /\ ret.id < BaseScore

\* the tracks of the catalog that the scan of find_track finds for the query
\* of the call last made: the query is in the base name or in the name with
\* its variant, or the base name or a word of the query is in the other
OverlapsOfCall ==
    LET q == lower(call.q) IN
    {i \in 1..Len(tracks) :
        \/ IsIn(q, lower(tracks[i].name))
        \/ IsIn(lower(tracks[i].name), q)
        \/ IsIn(q, strip(lower(tracks[i].name) \o <<" ">> \o lower(tracks[i].variant)))
        \/ \E w \in Range(split(q)) : IsIn(w, lower(tracks[i].name))}

\* C24: when the query is no key of the index and the tracks that the scan
\* finds all have one base name, find_track returns the one of them whose
\* variant has the highest score, the first in catalog order among those of
\* that score; a track without variant scores 50.
C24_BestVariantOfSingleBaseName ==
    (call.op = "find_track" /\ AllDicts(tracks)
     /\ ~DictHas(_tracks_by_name, lower(call.q))
     /\ OverlapsOfCall # {}
     /\ \A i, j \in OverlapsOfCall : tracks[i].name = tracks[j].name)
        => \E i \in OverlapsOfCall :
               /\ ret = TrackPair(tracks[i])
               /\ tracks[i].variant = <<>> => VariantScore(tracks[i].variant) = 50
               /\ \A j \in OverlapsOfCall :
                      \/ VariantScore(tracks[j].variant) < VariantScore(tracks[i].variant)
                      \/ /\ VariantScore(tracks[j].variant) = VariantScore(tracks[i].variant)
                         /\ i <= j

\* find_track has returned a track without variant that comes, in the
\* catalog, after a variant of its base name that scores below 50
C24_NoVariantBeatsLowVariant ==
    /\ call.op = "find_track"
    /\ AllDicts(tracks)
    /\ ~DictHas(_tracks_by_name, lower(call.q))
    /\ \A i, j \in OverlapsOfCall : tracks[i].name = tracks[j].name
    /\ \E i, j \in OverlapsOfCall :
           /\ j < i
           /\ tracks[i].variant = <<>>
           /\ VariantScore(tracks[j].variant) < 50
           /\ ret = TrackPair(tracks[i])

\* how well the base name of track i matches the query of the call last made:
\* equal, the query inside the base name, the base name inside the query, or
\* neither
TierOfCall(i) ==
    LET q == lower(call.q)
        base_name == lower(tracks[i].name)
    IN  IF q = base_name THEN 100
        ELSE IF IsIn(q, base_name) THEN 80
        ELSE IF IsIn(base_name, q) THEN 60
        ELSE 20

\* C25: when the query is no key of the index and the scan finds tracks of
\* several base names, find_track returns the best variant (highest variant
\* score, first in catalog order) of the base name that matches the query
\* best - equal (100), query inside the base name (80), base name inside the
\* query (60), otherwise (20) - and, among base names that match equally
\* well, of the one whose first track found comes first in the catalog.
C25_BestVariantOfBestMatchingBaseName ==
    LET
        \* the tracks found by the scan that have the base name of track i
        GroupOfCall(i) == {j \in OverlapsOfCall : tracks[j].name = tracks[i].name}
    IN
    (call.op = "find_track" /\ AllDicts(tracks)
     /\ ~DictHas(_tracks_by_name, lower(call.q))
     /\ \E i, j \in OverlapsOfCall : tracks[i].name # tracks[j].name)
        => \E i \in OverlapsOfCall :
               /\ ret = TrackPair(tracks[i])
               /\ \A j \in GroupOfCall(i) :
                      \/ VariantScore(tracks[j].variant) < VariantScore(tracks[i].variant)
                      \/ /\ VariantScore(tracks[j].variant) = VariantScore(tracks[i].variant)
                         /\ i <= j
               /\ \A j \in OverlapsOfCall :
                      \/ TierOfCall(j) < TierOfCall(i)
                      \/ /\ TierOfCall(j) = TierOfCall(i)
                         /\ SetMin(GroupOfCall(i)) <= SetMin(GroupOfCall(j))

\* find_track has returned a track of the base name that holds the query
\* although a track of another base name, which matches the query less well,
\* comes first in the catalog and has a variant of a higher score
C25_TierBeatsVariantScore ==
    /\ call.op = "find_track"
    /\ AllDicts(tracks)
    /\ ~DictHas(_tracks_by_name, lower(call.q))
    /\ \E i, j \in OverlapsOfCall :
           /\ j < i
           /\ tracks[i].name # tracks[j].name
           /\ TierOfCall(j) < TierOfCall(i)
           /\ VariantScore(tracks[j].variant) > VariantScore(tracks[i].variant)
           /\ ret = TrackPair(tracks[i])

\* C30: prefer_racing has no effect on find_track: on the catalog and the
\* query of the call last made, the outcomes of find_track with prefer_racing
\* set and not set are the same, and the result of the call is an outcome of
\* the call with the other value of prefer_racing.
C30_PreferRacingIgnored ==
    call.op = "find_track"
        => /\ find_track(call.q, TRUE) = find_track(call.q, FALSE)
           /\ ret \in find_track(call.q, ~call.flag)

\* find_track, with prefer_racing not set, has returned the variant of the
\* highest score of a base name and not the first track of that name
C30_BestVariantWithoutPreferRacing ==
    /\ call.op = "find_track"
    /\ ~call.flag
    /\ AllDicts(tracks)
    /\ ~DictHas(_tracks_by_name, lower(call.q))
    /\ \E i, j \in OverlapsOfCall :
           /\ i < j
           /\ tracks[i].name = tracks[j].name
           /\ VariantScore(tracks[i].variant) < VariantScore(tracks[j].variant)
           /\ ret = TrackPair(tracks[j])

(***************************************************************************)
(* Claims about the fastest-lap workflow.                                  *)
(***************************************************************************)
\* C26, its part about the requests: the lap-list requests of the running call
\* are at most two, the first with seeTelemetry, a second without it exactly
\* after a 403 on the first, and any answer but a lap list or that 403 raises
\* ValueError
C26_RequestsFollowRetryRule ==
    LET n == Len(client.sent) IN
    /\ n <= 2
    /\ n >= 1 => client.sent[1].seeTelemetry
    /\ n = 2 => ~client.sent[2].seeTelemetry /\ client.sent[1].answer = "403"
    /\ (n = 1 /\ client.sent[1].answer = "403") => client.at = "laps" /\ ~client.try_telemetry
    /\ (n >= 1 /\ ~(n = 1 /\ client.sent[1].answer = "403")
              /\ client.sent[n].answer \notin {"laps", "laps_viewable"})
           => client.at = "raised" /\ client.exc = "ValueError"

\* C26: a fastest-lap call sends at most two lap-list requests, the first for
\* telemetry laps and a second without the telemetry requirement if and only if
\* the first was answered 403; every other error answer, an empty lap list and
\* a 403 on the second request raise ValueError, and a call that has ended has
\* returned a lap result or raised ValueError.
C26_TwoRequestsThenResultOrValueError ==
    /\ C26_RequestsFollowRetryRule
    /\ client.at = "raised" => client.exc = "ValueError"

\* a fastest-lap call has ended with the IndexError of find_car, before any
\* request was sent
C26_CallEndsWithIndexError ==
    /\ client.method \in {"get_user_fastest_lap", "get_overall_fastest_lap"}
    /\ client.at = "raised"
    /\ client.exc = "IndexError"
    /\ client.sent = <<>>

\* C27: the workflow reports "Car not found" or "Track not found" only when
\* the resolver returned no entity; when find_car and find_track returned an
\* entity, whatever its id, the laps are requested with the ids of the two.
C27_ResolvedIdsProceed ==
    /\ client.message = "Car not found" => client.car.kind = "none"
    /\ client.message = "Track not found" => client.track.kind = "none"
    /\ \A i \in 1..Len(client.sent) :
           /\ client.sent[i].cars = client.car.id
           /\ client.sent[i].tracks = client.track.id

\* find_car returned the entity of id 0 and the call raised "Car not found"
\* without a request
C27_IdZeroReportedNotFound ==
    /\ client.car.kind = "pair"
    /\ client.car.id = 0
    /\ client.at = "raised"
    /\ client.message = "Car not found"
    /\ client.sent = <<>>

\* C28: a result has pro_required = true only when the lap has
\* canViewTelemetry and its telemetry request was answered 403; no result has
\* both telemetry_csv and pro_required = true; after a 404 or an empty body
\* the result does not have pro_required = true, and get_my_fastest_lap does
\* not write the Pro plan paragraph.
C28_ProRequiredOnlyOn403 ==
    /\ client.at = "returned" =>
           /\ client.result.pro_required => client.canViewTelemetry /\ client.csv = "403"
           /\ ~(client.result.telemetry_csv /\ client.result.pro_required)
           /\ client.csv \in {"404", "empty"} => ~client.result.pro_required
    /\ (tool.name = "get_my_fastest_lap" /\ tool.at = "done" /\ tool.text.telemetry = "pro")
           => client.csv = "403"

\* the telemetry request was answered 404 and get_my_fastest_lap has written
\* the Pro plan paragraph
C28_NotFoundReportedAsProRequired ==
    /\ tool.name = "get_my_fastest_lap"
    /\ tool.at = "done"
    /\ client.csv = "404"
    /\ client.result.pro_required
    /\ tool.text.telemetry = "pro"

\* C29: a tool call ends with a text; the text starts with "Error: " when the
\* token is missing or the awaited client method raised, except that a
\* ValueError of the personal lookup of get_team_fastest_lap leaves the text
\* of the team lap, with the note that the user has no lap.
C29_FailuresReturnedAsErrorText ==
    tool.at = "done" =>
        /\ tool.text.head # ""
        /\ init_failed = "create_client" => tool.text.head = "Error: "
        /\ (tool.name = "get_my_fastest_lap" /\ client.at = "raised")
               => tool.text.head = "Error: "
        /\ (tool.name = "get_team_fastest_lap" /\ client.at = "raised"
                /\ client.method = "get_overall_fastest_lap")
               => tool.text.head = "Error: "
        /\ (tool.name = "get_team_fastest_lap" /\ client.at = "raised"
                /\ client.method = "get_user_fastest_lap")
               => IF client.exc = "ValueError"
                  THEN /\ tool.text.head = "**Team Fastest Lap: "
                       /\ tool.text.note
                       /\ tool.team_result.lap
                  ELSE tool.text.head = "Error: "

\* get_team_fastest_lap has ended after a team lap was found and the personal
\* lookup raised ValueError for want of laps
C29_TeamLapReportedWithoutUserLap ==
    /\ tool.name = "get_team_fastest_lap"
    /\ tool.at = "done"
    /\ client.method = "get_user_fastest_lap"
    /\ client.at = "raised"
    /\ client.exc = "ValueError"
    /\ client.message = "No lap data found"
    /\ tool.text.head = "**Team Fastest Lap: "

====
